---------------------------- MODULE Spec2Model ----------------------------
(***************************************************************************)
(* A model of proxy-node (health-node): the SOCKS5 client DialSocks5, the  *)
(* readiness poller waitSocks and the process supervisor Runner.Start.     *)
(*                                                                         *)
(* Strings are sequences of byte values (ASCII codes), so that what is     *)
(* parsed, trimmed and put on the wire is computed byte by byte.           *)
(***************************************************************************)
EXTENDS Integers, Sequences, FiniteSets, TLC

(***************************************************************************)
(* Bytes and strings                                                       *)
(***************************************************************************)

\* ASCII codes of the characters the parsers look at.
Ch == [colon |-> 58, dot |-> 46, lbrack |-> 91, rbrack |-> 93,
       plus |-> 43, minus |-> 45, space |-> 32, zero |-> 48, nine |-> 57,
       la |-> 97, lf |-> 102, ua |-> 65, uf |-> 70]

Nil == <<>>

Min(a, b) == IF a < b THEN a ELSE b

Rep(c, n) == [i \in 1..n |-> c]

Drop(s, n) == SubSeq(s, n + 1, Len(s))

Take(s, n) == SubSeq(s, 1, n)

\* Index of the first / last occurrence of byte c in s, 0 when absent.
IndexByte(s, c) ==
    IF \E i \in 1..Len(s) : s[i] = c
    THEN CHOOSE i \in 1..Len(s) : s[i] = c /\ \A j \in 1..(i - 1) : s[j] # c
    ELSE 0

LastIndexByte(s, c) ==
    IF \E i \in 1..Len(s) : s[i] = c
    THEN CHOOSE i \in 1..Len(s) : s[i] = c /\ \A j \in (i + 1)..Len(s) : s[j] # c
    ELSE 0

IsDigit(c) == c >= Ch.zero /\ c <= Ch.nine

IsHex(c) == IsDigit(c) \/ (c >= Ch.la /\ c <= Ch.lf) \/ (c >= Ch.ua /\ c <= Ch.uf)

HexDigit(c) ==
    IF IsDigit(c) THEN c - Ch.zero
    ELSE IF c >= Ch.la /\ c <= Ch.lf THEN c - Ch.la + 10
    ELSE c - Ch.ua + 10

\* Number of leading bytes of s that satisfy the digit test.
RECURSIVE DigitPrefix(_)
DigitPrefix(s) ==
    IF s # <<>> /\ IsDigit(s[1]) THEN 1 + DigitPrefix(Drop(s, 1)) ELSE 0

RECURSIVE HexPrefix(_)
HexPrefix(s) ==
    IF s # <<>> /\ IsHex(s[1]) THEN 1 + HexPrefix(Drop(s, 1)) ELSE 0

\* Value of a string of decimal digits, saturated at cap + 1 (every value
\* above cap is treated alike by the callers).
RECURSIVE DecValue(_, _, _)
DecValue(s, acc, cap) ==
    IF s = <<>> THEN acc
    ELSE DecValue(Drop(s, 1), Min(acc * 10 + (s[1] - Ch.zero), cap + 1), cap)

RECURSIVE HexValue(_, _)
HexValue(s, acc) ==
    IF s = <<>> THEN acc ELSE HexValue(Drop(s, 1), acc * 16 + HexDigit(s[1]))

\* strings.TrimSpace on ASCII input: \t \n \v \f \r and space are cut from
\* both ends.
IsSpace(c) == c \in {9, 10, 11, 12, 13, 32}

RECURSIVE TrimLeft(_)
TrimLeft(s) == IF s # <<>> /\ IsSpace(s[1]) THEN TrimLeft(Drop(s, 1)) ELSE s

RECURSIVE TrimRight(_)
TrimRight(s) ==
    IF s # <<>> /\ IsSpace(s[Len(s)]) THEN TrimRight(Take(s, Len(s) - 1)) ELSE s

TrimSpace(s) == TrimRight(TrimLeft(s))

(***************************************************************************)
(* net.SplitHostPort, strconv.Atoi, net.ParseIP, IP.To4, IP.To16 as        *)
(* DialSocks5 calls them.                                                  *)
(***************************************************************************)

\* net.SplitHostPort: the port follows the last colon; a bracketed host
\* must end right before that colon; no other bracket, and no colon in an
\* unbracketed host.
SplitHostPort(hostport) ==
    LET i   == LastIndexByte(hostport, Ch.colon)
        bad == [ok |-> FALSE, host |-> <<>>, port |-> <<>>]
    IN  IF i = 0 THEN bad
        ELSE IF hostport[1] = Ch.lbrack
        THEN LET end == IndexByte(hostport, Ch.rbrack)
             IN  IF end = 0 \/ end + 1 # i THEN bad
                 ELSE IF IndexByte(Drop(hostport, 1), Ch.lbrack) # 0
                         \/ IndexByte(Drop(hostport, end), Ch.rbrack) # 0
                 THEN bad
                 ELSE [ok |-> TRUE, host |-> SubSeq(hostport, 2, end - 1),
                       port |-> Drop(hostport, i)]
        ELSE LET host == Take(hostport, i - 1)
             IN  IF IndexByte(host, Ch.colon) # 0
                    \/ IndexByte(hostport, Ch.lbrack) # 0
                    \/ IndexByte(hostport, Ch.rbrack) # 0
                 THEN bad
                 ELSE [ok |-> TRUE, host |-> host, port |-> Drop(hostport, i)]

\* strconv.Atoi: an optional sign, then one or more decimal digits.  The
\* value is saturated just above 65535: DialSocks5 rejects every larger
\* value, as it rejects Atoi's range error.
Atoi(s) ==
    LET signed == s # <<>> /\ s[1] \in {Ch.plus, Ch.minus}
        digits == IF signed THEN Drop(s, 1) ELSE s
        v      == DecValue(digits, 0, 65535)
    IN  IF digits = <<>> \/ DigitPrefix(digits) # Len(digits)
        THEN [ok |-> FALSE, val |-> 0]
        ELSE [ok |-> TRUE, val |-> IF signed /\ s[1] = Ch.minus THEN 0 - v ELSE v]

\* One dotted-decimal field: 1..3 digits, no leading zero, at most 255.
RECURSIVE ParseIPv4Fields(_, _)
ParseIPv4Fields(s, got) ==
    LET c == DigitPrefix(s)
        v == DecValue(Take(s, c), 0, 255)
    IN  IF c = 0 \/ c > 3 \/ (c > 1 /\ s[1] = Ch.zero) \/ v > 255 THEN Nil
        ELSE IF c = Len(s)
        THEN IF Len(got) = 3 THEN Append(got, v) ELSE Nil
        ELSE IF s[c + 1] # Ch.dot \/ Len(got) >= 3 THEN Nil
        ELSE ParseIPv4Fields(Drop(s, c + 1), Append(got, v))

\* The 4 bytes of a dotted-decimal IPv4 literal, or Nil.
ParseIPv4(s) == ParseIPv4Fields(s, <<>>)

\* After the groups are read: the whole string must be used, and an
\* ellipsis (::) stands for at least one zero group.
V6Finish(s, ip, ellipsis) ==
    IF s # <<>> THEN Nil
    ELSE IF Len(ip) < 16
    THEN IF ellipsis < 0 THEN Nil
         ELSE Take(ip, ellipsis) \o Rep(0, 16 - Len(ip)) \o Drop(ip, ellipsis)
    ELSE IF ellipsis >= 0 THEN Nil ELSE ip

\* The loop of parseIPv6: hex groups separated by colons, at most one ::,
\* and possibly a trailing dotted IPv4 address.
RECURSIVE V6Loop(_, _, _)
V6Loop(s, ip, ellipsis) ==
    IF Len(ip) >= 16 THEN V6Finish(s, ip, ellipsis)
    ELSE
    LET c == HexPrefix(s)
        n == HexValue(Take(s, c), 0)
    IN  IF c = 0 \/ c > 4 THEN Nil
        ELSE IF c < Len(s) /\ s[c + 1] = Ch.dot
        THEN IF (ellipsis < 0 /\ Len(ip) # 12) \/ Len(ip) + 4 > 16 THEN Nil
             ELSE IF ParseIPv4(s) = Nil THEN Nil
             ELSE V6Finish(<<>>, ip \o ParseIPv4(s), ellipsis)
        ELSE
        LET ip2  == ip \o <<n \div 256, n % 256>>
            rest == Drop(s, c)
        IN  IF rest = <<>> THEN V6Finish(<<>>, ip2, ellipsis)
            ELSE IF rest[1] # Ch.colon \/ Len(rest) = 1 THEN Nil
            ELSE IF rest[2] = Ch.colon
            THEN IF ellipsis >= 0 THEN Nil
                 ELSE IF Len(rest) = 2 THEN V6Finish(<<>>, ip2, Len(ip2))
                 ELSE V6Loop(Drop(rest, 2), ip2, Len(ip2))
            ELSE V6Loop(Drop(rest, 1), ip2, ellipsis)

ParseIPv6(s) ==
    IF Len(s) >= 2 /\ s[1] = Ch.colon /\ s[2] = Ch.colon
    THEN IF Len(s) = 2 THEN Rep(0, 16) ELSE V6Loop(Drop(s, 2), <<>>, 0)
    ELSE V6Loop(s, <<>>, -1)

\* The 16-byte form net.ParseIP gives an IPv4 address: ::ffff:a.b.c.d.
V4InV6(ip4) == Rep(0, 10) \o <<255, 255>> \o ip4

\* net.ParseIP: the first '.' or ':' decides which literal is tried; the
\* result is always in 16-byte form, Nil when s is no IP literal.
ParseIP(s) ==
    LET d == IndexByte(s, Ch.dot)
        c == IndexByte(s, Ch.colon)
    IN  IF d # 0 /\ (c = 0 \/ d < c)
        THEN IF ParseIPv4(s) = Nil THEN Nil ELSE V4InV6(ParseIPv4(s))
        ELSE IF c # 0 THEN ParseIPv6(s)
        ELSE Nil

\* IP.To4: the 4-byte form of an IPv4 or IPv4-mapped address, else Nil.
To4(ip) ==
    IF Len(ip) = 4 THEN ip
    ELSE IF Len(ip) = 16 /\ Take(ip, 10) = Rep(0, 10) /\ ip[11] = 255 /\ ip[12] = 255
    THEN Drop(ip, 12)
    ELSE Nil

\* IP.To16.
To16(ip) ==
    IF Len(ip) = 4 THEN V4InV6(ip) ELSE IF Len(ip) = 16 THEN ip ELSE Nil

(***************************************************************************)
(* State                                                                   *)
(***************************************************************************)

VARIABLES
    \* DialSocks5 (src/internal/proxy/socks5.go)
    pc,          \* where DialSocks5 stands
    targetAddr,  \* its targetAddr argument
    timeout,     \* its timeout argument (0: none)
    conn,        \* the connection: "nil", "open" or "closed"
    deadline,    \* the connection's deadline: "none", "set" or "expired"
    sent,        \* every byte written on the connection, in order
    resp,        \* the greeting reply read so far
    req,         \* the CONNECT request built from targetAddr
    head,        \* the CONNECT reply header read so far
    br,          \* bytes the bufio.Reader holds and has not handed out
    skip,        \* length of the bound address to discard
    trash,       \* bytes of the reply tail read so far
    nread,       \* bytes DialSocks5 has taken from the connection
    ret,         \* what DialSocks5 returned: [conn, err, code]
    \* the SOCKS5 server at the other end of the connection
    proxyStage,  \* what it sends next: "greet", "reply", "payload", "end"
    flight,      \* bytes it has sent that have not arrived yet
    inbox,       \* bytes that have arrived and are unread
    peerClosed   \* it has closed its side

socksVars == <<pc, targetAddr, timeout, conn, deadline, sent, resp, req, head,
               br, skip, trash, nread, ret, proxyStage, flight, inbox, peerClosed>>

VARIABLES
    \* waitSocks (src/unnamed/part_000); time is counted in units of 100 ms
    wpc,          \* where waitSocks stands
    wtimeout,     \* its timeout argument
    now,          \* the clock
    wdeadline,    \* its local deadline
    dialStart,    \* when the attempt under way began
    dialOK,       \* whether the attempt under way reaches a listener
    wakeAt,       \* when the retry timer of the select fires
    probe,        \* the probe connection: "none", "open" or "closed"
    wret,         \* what waitSocks returned: "none", "nil", "timeout", "ctx"
    attempts,     \* connect attempts begun
    okAttempts,   \* connect attempts that succeeded
    prevEnd,      \* when the previous attempt ended (-1: there was none)
    listening,    \* the endpoint accepts connections
    listenAt,     \* since when (-1: not yet)
    lateDial,     \* an attempt was begun after the endpoint began to accept
    ctxDone,      \* the context is done
    ctxAt         \* since when (-1: not yet)

waitVars == <<wpc, wtimeout, now, wdeadline, dialStart, dialOK, wakeAt, probe,
              wret, attempts, okAttempts, prevEnd, listening, listenAt,
              lateDial, ctxDone, ctxAt>>

VARIABLES
    \* Runner.Start and Started.Stop (src/cmd/health-node/main.go)
    rpc,        \* where Runner.Start stands
    runner,     \* the Runner: CorePath, Port, InboundProtocol, LogLevel
    outbound,   \* the outbound argument
    cfg,        \* the cfg map
    body,       \* the marshalled configuration
    dir,        \* the temporary directory of this call (0: none)
    files,      \* the file system: path -> content
    logf,       \* the parent's handle on the error log: "nil", "open", "closed"
    args,       \* the arguments the core is launched with
    child,      \* the child process: "none", "running", "exited"
    started,    \* the *Started returned
    serr,       \* the error returned ("": nil)
    sctxDone,   \* the context handed to Start is done
    stops,      \* calls of Stop that have returned
    lastStop    \* the handle of the last call of Stop

\* What Runner.Start itself never touches: its context and the calls of Stop.
stopVars == <<sctxDone, stops, lastStop>>

startVars == <<rpc, runner, outbound, cfg, body, dir, files, logf, args, child,
               started, serr, stopVars>>

VARIABLES
    \* startRelay and relayConn (src/unnamed/part_000 lines 446-512)
    ln,         \* the listener: "none", "open", "closed"
    stopCh,     \* the stop channel is closed
    rwg,        \* the counter of startRelay's WaitGroup
    apc,        \* the accept loop: "none", "accept", "spawn", "check", "exit"
    held,       \* the connection Accept has just returned (0: none)
    spc,        \* the stop function: "idle", "closing", "waiting", "returned"
    rc,         \* the connections: connection -> state of its handler
    upTotal,    \* meter.upTotal
    downTotal,  \* meter.downTotal
    adds,       \* calls of Add on the two counters
    snap        \* the counters and the calls of Add when stop returned

relayVars == <<ln, stopCh, rwg, apc, held, spc, rc, upTotal, downTotal, adds,
               snap>>

VARIABLES
    \* runProbe, runSpeed and runProxy (src/unnamed/part_000 lines 114-377)
    ucmd,          \* the command: "probe", "speed", "proxy"
    upc,           \* where the command stands
    showTraffic,   \* !*noTraffic
    printRequests, \* *printRequests
    defers,        \* the deferred calls, the last registered first
    coreUp,        \* Runner.Start returned a handle
    stopCalls,     \* calls of started.Stop
    relayUp,       \* startRelay returned a stop function
    relayStops,    \* calls of the relay's stop function
    tasks,         \* the goroutines of lines 358-371 still running
    chansClosed,   \* stopLog and stopTraffic are closed
    sigPending,    \* an interrupt waits in sigCh
    uret,          \* what the command returned: "none", "nil", or an error
    uerr,          \* the error returned: its context, its cause, the log tail
    upolled,       \* waitSocks has been called
    events,        \* what has happened, in its order
    localPort,     \* *localPort
    corePort,      \* the port given to the core
    draws          \* the outcomes of the calls of randomPort

runVars == <<ucmd, upc, showTraffic, printRequests, defers, coreUp, stopCalls,
             relayUp, relayStops, tasks, chansClosed, sigPending, uret, uerr,
             upolled, events, localPort, corePort, draws>>

VARIABLES
    \* trafficMeter.run (src/unnamed/part_000 lines 423-444)
    mpc,        \* the reporter: "none", "run", "exit"
    mstop,      \* its stop channel is closed
    prevUp,     \* prevUp
    prevDown,   \* prevDown
    printed,    \* the last line printed: upRate, downRate, up, down
    rateSums    \* the sums of the upRate and downRate printed so far

meterVars == <<mpc, mstop, prevUp, prevDown, printed, rateSums>>

VARIABLES
    \* Started.ReadLogTail (src/cmd/health-node/main.go lines 481-493)
    lfile,      \* the error log file: "missing", "unreadable", "ok"
    lcontent,   \* its bytes, each tagged with its offset in the file
    lwrites,    \* writes the core has made to it
    lcall,      \* the last call of ReadLogTail: handle, file, length
    ltail       \* what that call returned

logVars == <<lfile, lcontent, lwrites, lcall, ltail>>

VARIABLES
    \* probeHTTP and speedHTTP (src/unnamed/part_000 lines 551-597)
    hfn,        \* the function: "probe", "speed"
    hmax,       \* maxBytes (speedHTTP)
    hstatus,    \* the status of the response the server gives
    hbody,      \* the length of the body the server sends
    hfailAt,    \* the offset at which reading the body fails (-1: never)
    hpc,        \* where the function stands
    hnow,       \* the clock
    hstart,     \* start
    hread,      \* bytes read from the body
    hres        \* what the function returned

httpVars == <<hfn, hmax, hstatus, hbody, hfailAt, hpc, hnow, hstart, hread,
              hres>>

VARIABLES
    \* resolveCorePath (src/unnamed/part_000 lines 629-667)
    flagPath,   \* the --core flag
    exeOK,      \* os.Executable returns no error
    stats,      \* what os.Stat finds at each candidate
    inPath,     \* the names exec.LookPath finds
    cpc,        \* where the function stands
    ci,         \* the index of the loop
    cres        \* what the function returned

coreVars == <<flagPath, exeOK, stats, inPath, cpc, ci, cres>>

VARIABLES
    \* provider.FromURI and Outbound (src/unnamed/part_001)
    scheme,     \* the scheme of the URI
    b64ok,      \* the text after vmess:// is base64 in one of the alphabets
    payload,    \* the JSON object it decodes to: key -> value
    vpc,        \* where the parse stands
    user,       \* the user part of a vless URI
    hostport,   \* its host part
    query,      \* its query: key -> value
    vm,         \* the VMess being filled
    vl,         \* the VLESS parseVLESS builds
    prov,       \* what FromURI returned
    outb        \* what Outbound returned

provVars == <<scheme, b64ok, payload, vpc, user, hostport, query, vm, vl,
              prov, outb>>

VARIABLES
    \* client.Do of the client of httpClientThroughSocks
    \* (src/unnamed/part_000 lines 558, 574, 599-622)
    dchain,     \* the redirects the servers answer before the final response
    dfail,      \* the request whose transport fails (0: none)
    dbad,       \* the request before the redirect URL that parses no more
    dvia,       \* the requests made so far: len(via) at CheckRedirect
    dpc,        \* where client.Do stands
    dres        \* what client.Do returned

redirVars == <<dchain, dfail, dbad, dvia, dpc, dres>>

VARIABLES
    \* streamLog (src/unnamed/part_000 lines 379-412)
    tfile,      \* the lines of the access log, each with its newline
    tall,       \* every line the core has appended, in the order of appends
    ttruncs,    \* how often the file was cut to nothing
    tstop,      \* the stop channel is closed
    tpc,        \* where streamLog stands
    toffset,    \* offset
    tsize,      \* info.Size()
    tprinted    \* the lines printed

tailVars == <<tfile, tall, ttruncs, tstop, tpc, toffset, tsize, tprinted>>

\* The components added last.
lastVars == <<redirVars, tailVars>>

\* The components added after the first five.
moreVars == <<logVars, httpVars, coreVars, provVars, lastVars>>

\* What a step of one component leaves alone: the other components.
notSocks == <<waitVars, startVars, relayVars, runVars, meterVars, moreVars>>

notWait == <<socksVars, startVars, relayVars, runVars, meterVars, moreVars>>

notStart == <<socksVars, waitVars, relayVars, runVars, meterVars, moreVars>>

notRelay == <<socksVars, waitVars, startVars, runVars, meterVars, moreVars>>

notRun == <<socksVars, waitVars, startVars, relayVars, meterVars, moreVars>>

\* The reporter reads the counters of the relay and leaves them alone.
notMeter == <<socksVars, waitVars, startVars, runVars, moreVars>>

\* The components of the first sections, seen from the later ones.
firstVars == <<socksVars, waitVars, startVars, relayVars, runVars, meterVars>>

notLog == <<firstVars, httpVars, coreVars, provVars, lastVars>>

notHttp == <<firstVars, logVars, coreVars, provVars, lastVars>>

notCore == <<firstVars, logVars, httpVars, provVars, lastVars>>

notProv == <<firstVars, logVars, httpVars, coreVars, lastVars>>

notRedir == <<firstVars, logVars, httpVars, coreVars, provVars, tailVars>>

notTail == <<firstVars, logVars, httpVars, coreVars, provVars, redirVars>>

(***************************************************************************)
(* Bounds and inputs of DialSocks5                                         *)
(***************************************************************************)

\* Longest payload the server sends after its CONNECT reply.
MaxPayload == 2

\* Longest domain name in the bound address of a CONNECT reply.
MaxBoundName == 2

\* Size of the buffer bufio.NewReader allocates.
BufSize == 4096

\* The largest domain name a request can carry.
MaxHostLen == 255

T_v4        == <<57,51,46,49,56,52,46,50,49,54,46,51,52,58,52,52,51>>   \* 93.184.216.34:443
T_domain    == <<101,120,97,109,112,108,101,46,99,111,109,58,56,48>>    \* example.com:80
T_v6loop    == <<91,58,58,49,93,58,56,48>>                              \* [::1]:80
T_v6mapped  == <<91,58,58,102,102,102,102,58,49,46,50,46,51,46,52,93,58,52,52,51>> \* [::ffff:1.2.3.4]:443
T_v6maphex  == <<91,58,58,102,102,102,102,58,49,48,50,58,51,48,52,93,58,49>> \* [::ffff:102:304]:1
T_v6doc     == <<91,50,48,48,49,58,100,98,56,58,58,49,93,58,56,48,56,48>> \* [2001:db8::1]:8080
T_noport    == <<101,120,97,109,112,108,101,46,99,111,109>>             \* example.com
T_port0     == <<97,58,48>>                                             \* a:0
T_portmax   == <<97,58,54,53,53,51,53>>                                 \* a:65535
T_portover  == <<97,58,54,53,53,51,54>>                                 \* a:65536
T_portalpha == <<97,58,120>>                                            \* a:x
T_portplus  == <<97,58,43,56,48>>                                       \* a:+80
T_nohost    == <<58,56,48>>                                             \* :80
T_blank     == <<32,58,56,48>>                                          \* " :80"
T_padded    == <<97,32,58,56,48>>                                       \* "a :80"
T_spacev4   == <<32,49,46,50,46,51,46,52,58,56,48>>                     \* " 1.2.3.4:80"
T_threedots == <<49,46,50,46,51,58,56,48>>                              \* 1.2.3:80

\* A host of n letters, then pad spaces, with port 80.
LongTarget(n, pad) == Rep(Ch.la, n) \o Rep(Ch.space, pad) \o <<58, 56, 48>>

Targets ==
    { T_v4, T_domain, T_v6loop, T_v6mapped, T_v6maphex, T_v6doc, T_noport,
      T_port0, T_portmax, T_portover, T_portalpha, T_portplus, T_nohost,
      T_blank, T_padded, T_spacev4, T_threedots,
      LongTarget(MaxHostLen, 0), LongTarget(MaxHostLen + 1, 0),
      LongTarget(MaxHostLen, 1) }

Timeouts == {0, 1}

\* What the server may answer to the greeting.
GreetReplies == { <<5, 0>>, <<5, 1>>, <<4, 0>>, <<5, 255>>, <<5>> }

BoundPort == <<4, 56>>

ReplyHead(ver, status, atyp) == <<ver, status, 0, atyp>>

\* What the server may answer to CONNECT: well-formed replies of the three
\* address types, refusals, a wrong version, an unknown address type, and
\* replies cut short.
ConnReplies ==
    { ReplyHead(5, 0, 1) \o <<10, 0, 0, 1>> \o BoundPort,
      ReplyHead(5, 0, 4) \o Rep(9, 16) \o BoundPort,
      ReplyHead(5, 0, 9) \o BoundPort,
      ReplyHead(4, 0, 1) \o BoundPort,
      ReplyHead(5, 0, 1), ReplyHead(5, 0, 3), <<5, 0>> }
    \cup { ReplyHead(5, 0, 3) \o <<n>> \o Rep(120, n) \o BoundPort : n \in 0..MaxBoundName }
    \cup { ReplyHead(5, st, at) : st \in {1, 5, 255}, at \in {1, 9} }

Payloads == { Rep(170, n) : n \in 1..MaxPayload }


(***************************************************************************)
(* DialSocks5: building the CONNECT request (socks5.go lines 41-72)        *)
(***************************************************************************)

\* AddrBytes with the length test off by one: a name of 256 bytes passes.
AddrBytesOffByOne(host) ==
    LET ip == ParseIP(host)
    IN  IF ip # Nil /\ To4(ip) # Nil THEN <<1>> \o To4(ip)
        ELSE IF ip # Nil /\ To16(ip) # Nil THEN <<4>> \o To16(ip)
        ELSE LET name == TrimSpace(host)
             IN  IF Len(name) = 0 \/ Len(name) > MaxHostLen + 1 THEN Nil
                 ELSE <<3, Len(name) % 256>> \o name

\* The address part of the request for a host that is an IP literal or a
\* name: the switch of lines 54-69.  Nil when the name is refused.
AddrBytes(host) ==
    LET ip == ParseIP(host)
    IN  IF ip # Nil /\ To4(ip) # Nil THEN <<1>> \o To4(ip)
        ELSE IF ip # Nil /\ To16(ip) # Nil THEN <<4>> \o To16(ip)
        ELSE LET name == TrimSpace(host)
             IN  IF Len(name) = 0 \/ Len(name) > MaxHostLen THEN Nil
                 ELSE <<3, Len(name) % 256>> \o name

\* The port test of line 47.
PortValid(a) == a.ok /\ a.val >= 1 /\ a.val <= 65535

\* PutUint16 with the byte order swapped.
PutUint16Little(v) == <<v % 256, (v \div 256) % 256>>

\* binary.BigEndian.PutUint16.
PutUint16(v) == <<(v \div 256) % 256, v % 256>>

\* Lines 41-72: the request, or the error that ends the call.
BuildRequest(target) ==
    LET hp == SplitHostPort(target)
        a  == Atoi(hp.port)
    IN  IF ~hp.ok THEN [err |-> "target addr parse", req |-> <<>>]
        ELSE IF ~PortValid(a) THEN [err |-> "target port is invalid", req |-> <<>>]
        ELSE IF AddrBytes(hp.host) = Nil
        THEN [err |-> "target host is invalid", req |-> <<>>]
        ELSE [err |-> "",
              req |-> <<5, 1, 0>> \o AddrBytes(hp.host) \o PutUint16(a.val)]

(***************************************************************************)
(* DialSocks5: the calls on the connection                                 *)
(***************************************************************************)

NoReturn == [conn |-> FALSE, err |-> "", code |-> 0]

\* A return with an error: (nil, err).
Fail(e, c) == [conn |-> FALSE, err |-> e, code |-> c]

\* CloseOnError with the Close() missing on one path.
CloseOnErrorLeak(e) ==
    IF e = "socks reply had unknown address type" THEN "open" ELSE "closed"

\* The state of the connection at a failing return with error e: every
\* failing path after the dial calls conn.Close() first.
CloseOnError(e) == "closed"

\* The end of the stream is seen once everything sent has been read.
AtEOF == peerClosed /\ flight = <<>> /\ inbox = <<>>

\* One conn.Read(b) with room for want bytes: "ok" with the bytes taken,
\* "err", or "block" while nothing has arrived.
ConnRead(want) ==
    IF deadline = "expired" THEN [st |-> "err", got |-> <<>>]
    ELSE IF inbox # <<>> THEN [st |-> "ok", got |-> Take(inbox, Min(want, Len(inbox)))]
    ELSE IF AtEOF THEN [st |-> "err", got |-> <<>>]
    ELSE [st |-> "block", got |-> <<>>]

\* One br.Read(p) with len(p) = want on the bufio.Reader: buffered bytes are
\* handed out first; an empty buffer is refilled by one conn.Read of up to
\* BufSize bytes, and the bytes not asked for stay in the buffer.
BrRead(want) ==
    IF br # <<>>
    THEN [st |-> "ok", got |-> Take(br, Min(want, Len(br))),
          left |-> Drop(br, Min(want, Len(br))), took |-> 0]
    ELSE LET r == ConnRead(BufSize)
         IN  [st |-> r.st, got |-> Take(r.got, Min(want, Len(r.got))),
              left |-> Drop(r.got, Min(want, Len(r.got))), took |-> Len(r.got)]


\* GreetingOK without the test of the selected method.
GreetingOKVersionOnly(r) == r[1] = 5

\* Line 36: the greeting reply that lets the handshake go on.
GreetingOK(r) == r[1] = 5 /\ r[2] = 0

\* HeadVerdict with the address type looked at before the status.
HeadVerdictTypeFirst(h) ==
    IF h[1] # 5 THEN [err |-> "invalid socks version in reply", code |-> 0, next |-> "done", skip |-> 0]
    ELSE IF h[4] \notin {1, 3, 4}
    THEN [err |-> "socks reply had unknown address type", code |-> 0, next |-> "done", skip |-> 0]
    ELSE IF h[2] # 0 THEN [err |-> "socks connect failed", code |-> h[2], next |-> "done", skip |-> 0]
    ELSE IF h[4] = 1 THEN [err |-> "", code |-> 0, next |-> "tailRead", skip |-> 4]
    ELSE IF h[4] = 4 THEN [err |-> "", code |-> 0, next |-> "tailRead", skip |-> 16]
    ELSE [err |-> "", code |-> 0, next |-> "domLenRead", skip |-> 0]

\* Lines 85-110 on a complete reply header: the error that ends the call,
\* or what is read next.
HeadVerdict(h) ==
    IF h[1] # 5 THEN [err |-> "invalid socks version in reply", code |-> 0, next |-> "done", skip |-> 0]
    ELSE IF h[2] # 0 THEN [err |-> "socks connect failed", code |-> h[2], next |-> "done", skip |-> 0]
    ELSE IF h[4] = 1 THEN [err |-> "", code |-> 0, next |-> "tailRead", skip |-> 4]
    ELSE IF h[4] = 4 THEN [err |-> "", code |-> 0, next |-> "tailRead", skip |-> 16]
    ELSE IF h[4] = 3 THEN [err |-> "", code |-> 0, next |-> "domLenRead", skip |-> 0]
    ELSE [err |-> "socks reply had unknown address type", code |-> 0, next |-> "done", skip |-> 0]

\* A failing return after the dial: the connection is closed, then
\* (nil, err) is returned.
FailClosed(e, c) ==
    /\ conn' = CloseOnError(e)
    /\ ret' = Fail(e, c)
    /\ pc' = "done"

\* Lines 17-24.
Dial ==
    /\ pc = "dial"
    /\ \/ /\ conn' = "open"
          /\ deadline' = IF timeout > 0 THEN "set" ELSE "none"
          /\ pc' = "greetWrite"
          /\ UNCHANGED ret
       \/ /\ ret' = Fail("dial socks server", 0)
          /\ pc' = "done"
          /\ UNCHANGED <<conn, deadline>>
    /\ UNCHANGED notSocks
    /\ UNCHANGED <<targetAddr, timeout, sent, resp, req, head, br, skip, trash,
                   nread, proxyStage, flight, inbox, peerClosed>>

\* Lines 26-29.
GreetWrite ==
    /\ pc = "greetWrite"
    /\ \/ /\ deadline # "expired"
          /\ sent' = sent \o <<5, 1, 0>>
          /\ pc' = "greetRead"
          /\ UNCHANGED <<conn, ret>>
       \/ /\ FailClosed("socks greeting write", 0)
          /\ UNCHANGED sent
    /\ UNCHANGED notSocks
    /\ UNCHANGED <<targetAddr, timeout, deadline, resp, req, head, br, skip,
                   trash, nread, proxyStage, flight, inbox, peerClosed>>

\* Lines 31-35: one Read of readFull(conn, resp).
GreetRead ==
    /\ pc = "greetRead"
    /\ LET r == ConnRead(2 - Len(resp))
       IN  \/ /\ r.st = "ok"
              /\ resp' = resp \o r.got
              /\ inbox' = Drop(inbox, Len(r.got))
              /\ nread' = nread + Len(r.got)
              /\ pc' = IF Len(resp) + Len(r.got) = 2 THEN "greetCheck" ELSE "greetRead"
              /\ UNCHANGED <<conn, ret>>
           \/ /\ r.st = "err"
              /\ FailClosed("socks greeting read", 0)
              /\ UNCHANGED <<resp, inbox, nread>>
    /\ UNCHANGED notSocks
    /\ UNCHANGED <<targetAddr, timeout, deadline, sent, req, head, br, skip,
                   trash, proxyStage, flight, peerClosed>>

\* Lines 36-39.
GreetCheck ==
    /\ pc = "greetCheck"
    /\ \/ /\ GreetingOK(resp)
          /\ pc' = "parse"
          /\ UNCHANGED <<conn, ret>>
       \/ /\ ~GreetingOK(resp)
          /\ FailClosed("socks auth negotiation failed", 0)
    /\ UNCHANGED notSocks
    /\ UNCHANGED <<targetAddr, timeout, deadline, sent, resp, req, head, br,
                   skip, trash, nread, proxyStage, flight, inbox, peerClosed>>

\* Lines 41-72.
Parse ==
    /\ pc = "parse"
    /\ LET b == BuildRequest(targetAddr)
       IN  \/ /\ b.err = ""
              /\ req' = b.req
              /\ pc' = "connWrite"
              /\ UNCHANGED <<conn, ret>>
           \/ /\ b.err # ""
              /\ FailClosed(b.err, 0)
              /\ UNCHANGED req
    /\ UNCHANGED notSocks
    /\ UNCHANGED <<targetAddr, timeout, deadline, sent, resp, head, br, skip,
                   trash, nread, proxyStage, flight, inbox, peerClosed>>

\* Lines 74-79.
ConnWrite ==
    /\ pc = "connWrite"
    /\ \/ /\ deadline # "expired"
          /\ sent' = sent \o req
          /\ pc' = "headRead"
          /\ UNCHANGED <<conn, ret>>
       \/ /\ FailClosed("socks connect write", 0)
          /\ UNCHANGED sent
    /\ UNCHANGED notSocks
    /\ UNCHANGED <<targetAddr, timeout, deadline, resp, req, head, br, skip,
                   trash, nread, proxyStage, flight, inbox, peerClosed>>

\* Lines 80-84: one Read of readFull(br, head).
HeadRead ==
    /\ pc = "headRead"
    /\ LET r == BrRead(4 - Len(head))
       IN  \/ /\ r.st = "ok"
              /\ head' = head \o r.got
              /\ br' = r.left
              /\ inbox' = Drop(inbox, r.took)
              /\ nread' = nread + r.took
              /\ pc' = IF Len(head) + Len(r.got) = 4 THEN "headCheck" ELSE "headRead"
              /\ UNCHANGED <<conn, ret>>
           \/ /\ r.st = "err"
              /\ FailClosed("socks connect read", 0)
              /\ UNCHANGED <<head, br, inbox, nread>>
    /\ UNCHANGED notSocks
    /\ UNCHANGED <<targetAddr, timeout, deadline, sent, resp, req, skip, trash,
                   proxyStage, flight, peerClosed>>

\* Lines 85-110, but for the read of the domain length.
HeadCheck ==
    /\ pc = "headCheck"
    /\ LET v == HeadVerdict(head)
       IN  \/ /\ v.err = ""
              /\ skip' = v.skip
              /\ pc' = v.next
              /\ UNCHANGED <<conn, ret>>
           \/ /\ v.err # ""
              /\ FailClosed(v.err, v.code)
              /\ UNCHANGED skip
    /\ UNCHANGED notSocks
    /\ UNCHANGED <<targetAddr, timeout, deadline, sent, resp, req, head, br,
                   trash, nread, proxyStage, flight, inbox, peerClosed>>

\* Lines 101-106: br.ReadByte().
DomLenRead ==
    /\ pc = "domLenRead"
    /\ LET r == BrRead(1)
       IN  \/ /\ r.st = "ok"
              /\ skip' = r.got[1]
              /\ br' = r.left
              /\ inbox' = Drop(inbox, r.took)
              /\ nread' = nread + r.took
              /\ pc' = "tailRead"
              /\ UNCHANGED <<conn, ret>>
           \/ /\ r.st = "err"
              /\ FailClosed("socks reply domain len read", 0)
              /\ UNCHANGED <<skip, br, inbox, nread>>
    /\ UNCHANGED notSocks
    /\ UNCHANGED <<targetAddr, timeout, deadline, sent, resp, req, head, trash,
                   proxyStage, flight, peerClosed>>

\* Lines 111-115: one Read of readFull(br, trash), len(trash) = skip+2.
TailRead ==
    /\ pc = "tailRead"
    /\ LET r == BrRead(skip + 2 - Len(trash))
       IN  \/ /\ r.st = "ok"
              /\ trash' = trash \o r.got
              /\ br' = r.left
              /\ inbox' = Drop(inbox, r.took)
              /\ nread' = nread + r.took
              /\ pc' = IF Len(trash) + Len(r.got) = skip + 2 THEN "finish" ELSE "tailRead"
              /\ UNCHANGED <<conn, ret>>
           \/ /\ r.st = "err"
              /\ FailClosed("socks reply tail read", 0)
              /\ UNCHANGED <<trash, br, inbox, nread>>
    /\ UNCHANGED notSocks
    /\ UNCHANGED <<targetAddr, timeout, deadline, sent, resp, req, head, skip,
                   proxyStage, flight, peerClosed>>

\* Lines 117-119 left out.
DeadlineKept(t, d) == d

\* Lines 117-119: conn.SetDeadline(time.Time{}) when timeout > 0.
DeadlineCleared(t, d) == IF t > 0 THEN "none" ELSE d

\* Lines 117-120: the deadline is cleared and (conn, nil) is returned.
Finish ==
    /\ pc = "finish"
    /\ deadline' = DeadlineCleared(timeout, deadline)
    /\ ret' = [conn |-> TRUE, err |-> "", code |-> 0]
    /\ pc' = "done"
    /\ UNCHANGED notSocks
    /\ UNCHANGED <<targetAddr, timeout, conn, sent, resp, req, head, br, skip,
                   trash, nread, proxyStage, flight, inbox, peerClosed>>

(***************************************************************************)
(* The SOCKS5 server and the network                                       *)
(***************************************************************************)

\* The server answers the greeting it was sent.
ProxyGreet ==
    /\ pc # "done" /\ proxyStage = "greet" /\ conn = "open" /\ ~peerClosed
    /\ Len(sent) >= 3
    /\ \E g \in GreetReplies : flight' = flight \o g
    /\ proxyStage' = "reply"
    /\ UNCHANGED notSocks
    /\ UNCHANGED <<pc, targetAddr, timeout, conn, deadline, sent, resp, req,
                   head, br, skip, trash, nread, ret, inbox, peerClosed>>

\* The server answers the CONNECT request it was sent.
ProxyReply ==
    /\ pc # "done" /\ proxyStage = "reply" /\ conn = "open" /\ ~peerClosed
    /\ Len(sent) > 3
    /\ \E r \in ConnReplies : flight' = flight \o r
    /\ proxyStage' = "payload"
    /\ UNCHANGED notSocks
    /\ UNCHANGED <<pc, targetAddr, timeout, conn, deadline, sent, resp, req,
                   head, br, skip, trash, nread, ret, inbox, peerClosed>>

\* The server relays the first bytes of the target.
ProxyPayload ==
    /\ pc # "done" /\ proxyStage = "payload" /\ conn = "open" /\ ~peerClosed
    /\ \E p \in Payloads : flight' = flight \o p
    /\ proxyStage' = "end"
    /\ UNCHANGED notSocks
    /\ UNCHANGED <<pc, targetAddr, timeout, conn, deadline, sent, resp, req,
                   head, br, skip, trash, nread, ret, inbox, peerClosed>>

\* The server closes its side; the close is seen after all it has sent.
ProxyClose ==
    /\ pc # "done" /\ conn = "open" /\ ~peerClosed /\ flight = <<>>
    /\ peerClosed' = TRUE
    /\ UNCHANGED notSocks
    /\ UNCHANGED <<pc, targetAddr, timeout, conn, deadline, sent, resp, req,
                   head, br, skip, trash, nread, ret, proxyStage, flight, inbox>>

\* Some of the bytes in flight arrive.
Deliver ==
    /\ pc # "done" /\ conn = "open" /\ flight # <<>>
    /\ \E k \in 1..Len(flight) :
          /\ inbox' = inbox \o Take(flight, k)
          /\ flight' = Drop(flight, k)
    /\ UNCHANGED notSocks
    /\ UNCHANGED <<pc, targetAddr, timeout, conn, deadline, sent, resp, req,
                   head, br, skip, trash, nread, ret, proxyStage, peerClosed>>

\* The deadline set at line 23 passes.
Expire ==
    /\ conn = "open" /\ deadline = "set"
    /\ deadline' = "expired"
    /\ UNCHANGED notSocks
    /\ UNCHANGED <<pc, targetAddr, timeout, conn, sent, resp, req, head, br,
                   skip, trash, nread, ret, proxyStage, flight, inbox, peerClosed>>

SocksInit ==
    /\ pc = "dial"
    /\ targetAddr \in Targets
    /\ timeout \in Timeouts
    /\ conn = "nil"
    /\ deadline = "none"
    /\ sent = <<>>
    /\ resp = <<>>
    /\ req = <<>>
    /\ head = <<>>
    /\ br = <<>>
    /\ skip = 0
    /\ trash = <<>>
    /\ nread = 0
    /\ ret = NoReturn
    /\ proxyStage = "greet"
    /\ flight = <<>>
    /\ inbox = <<>>
    /\ peerClosed = FALSE

SocksNext ==
    \/ Dial \/ GreetWrite \/ GreetRead \/ GreetCheck \/ Parse \/ ConnWrite
    \/ HeadRead \/ HeadCheck \/ DomLenRead \/ TailRead \/ Finish
    \/ ProxyGreet \/ ProxyReply \/ ProxyPayload \/ ProxyClose \/ Deliver \/ Expire

(***************************************************************************)
(* waitSocks (part_000 lines 532-549)                                      *)
(***************************************************************************)

\* Longest timeout waitSocks is called with, in units of 100 ms.
MaxWaitTimeout == 4

\* time.After(200 * time.Millisecond)
RetryInterval == 2

\* net.DialTimeout(..., 500 * time.Millisecond)
ProbeTimeout == 5

\* time.Now().After(deadline) with the deadline test made one tick early.
DeadlinePassedEarly(t, d) == t >= d

\* Line 535: time.Now().After(deadline).
DeadlinePassed(t, d) == t > d

\* The probe connection with the Close() of line 540 missing.
ProbeLeftOpen == "open"

\* Line 540: conn.Close() on the probe connection.
ProbeClosed == "closed"

\* Line 533.
WaitStart ==
    /\ wpc = "start"
    /\ wdeadline' = now + wtimeout
    /\ wpc' = "check"
    /\ UNCHANGED notWait
    /\ UNCHANGED <<wtimeout, now, dialStart, dialOK, wakeAt, probe, wret,
                   attempts, okAttempts, prevEnd, listening, listenAt, lateDial,
                   ctxDone, ctxAt>>

\* Lines 535-537.
WaitCheck ==
    /\ wpc = "check"
    /\ \/ /\ DeadlinePassed(now, wdeadline)
          /\ wret' = "timeout"
          /\ wpc' = "done"
       \/ /\ ~DeadlinePassed(now, wdeadline)
          /\ wpc' = "dial"
          /\ UNCHANGED wret
    /\ UNCHANGED notWait
    /\ UNCHANGED <<wtimeout, now, wdeadline, dialStart, dialOK, wakeAt, probe,
                   attempts, okAttempts, prevEnd, listening, listenAt, lateDial,
                   ctxDone, ctxAt>>

\* Line 538: the connect attempt begins; it reaches a listener exactly when
\* the endpoint accepts at that moment.
WaitDialBegin ==
    /\ wpc = "dial"
    /\ dialStart' = now
    /\ dialOK' = listening
    /\ attempts' = attempts + 1
    /\ lateDial' = (lateDial \/ listening)
    /\ wpc' = "dialing"
    /\ UNCHANGED notWait
    /\ UNCHANGED <<wtimeout, now, wdeadline, wakeAt, probe, wret, okAttempts,
                   prevEnd, listening, listenAt, ctxDone, ctxAt>>

\* Lines 538-542: the attempt ends, within ProbeTimeout; on success the
\* probe connection is closed and nil is returned.
WaitDialEnd ==
    /\ wpc = "dialing"
    /\ prevEnd' = now
    /\ \/ /\ dialOK
          /\ okAttempts' = okAttempts + 1
          /\ probe' = ProbeClosed
          /\ wret' = "nil"
          /\ wpc' = "done"
       \/ /\ ~dialOK
          /\ wpc' = "select"
          /\ UNCHANGED <<okAttempts, probe, wret>>
    /\ UNCHANGED notWait
    /\ UNCHANGED <<wtimeout, now, wdeadline, dialStart, dialOK, wakeAt, attempts,
                   listening, listenAt, lateDial, ctxDone, ctxAt>>

\* Line 543: the select is entered and the retry timer armed.
WaitSelect ==
    /\ wpc = "select"
    /\ wakeAt' = now + RetryInterval
    /\ wpc' = "sleeping"
    /\ UNCHANGED notWait
    /\ UNCHANGED <<wtimeout, now, wdeadline, dialStart, dialOK, probe, wret,
                   attempts, okAttempts, prevEnd, listening, listenAt, lateDial,
                   ctxDone, ctxAt>>

\* Lines 544-547: the select takes a ready case, either one when both are.
WaitWake ==
    /\ wpc = "sleeping"
    /\ \/ /\ ctxDone
          /\ wret' = "ctx"
          /\ wpc' = "done"
       \/ /\ now >= wakeAt
          /\ wpc' = "check"
          /\ UNCHANGED wret
    /\ UNCHANGED notWait
    /\ UNCHANGED <<wtimeout, now, wdeadline, dialStart, dialOK, wakeAt, probe,
                   attempts, okAttempts, prevEnd, listening, listenAt, lateDial,
                   ctxDone, ctxAt>>

WaitStep ==
    \/ WaitStart \/ WaitCheck \/ WaitDialBegin \/ WaitDialEnd \/ WaitSelect
    \/ WaitWake

\* Time passes while waitSocks is blocked: in the connect attempt, for at
\* most ProbeTimeout, or in the select, until the retry timer fires.
Tick ==
    /\ \/ wpc = "dialing" /\ now < dialStart + ProbeTimeout
       \/ wpc = "sleeping" /\ now < wakeAt /\ ~ctxDone
    /\ now' = now + 1
    /\ UNCHANGED notWait
    /\ UNCHANGED <<wpc, wtimeout, wdeadline, dialStart, dialOK, wakeAt, probe,
                   wret, attempts, okAttempts, prevEnd, listening, listenAt,
                   lateDial, ctxDone, ctxAt>>

\* The core opens its port.
StartListening ==
    /\ wpc # "done" /\ ~listening
    /\ listening' = TRUE
    /\ listenAt' = now
    /\ UNCHANGED notWait
    /\ UNCHANGED <<wpc, wtimeout, now, wdeadline, dialStart, dialOK, wakeAt,
                   probe, wret, attempts, okAttempts, prevEnd, lateDial, ctxDone,
                   ctxAt>>

\* The enclosing context is cancelled or its deadline passes.
CtxCancel ==
    /\ wpc # "done" /\ ~ctxDone
    /\ ctxDone' = TRUE
    /\ ctxAt' = now
    /\ UNCHANGED notWait
    /\ UNCHANGED <<wpc, wtimeout, now, wdeadline, dialStart, dialOK, wakeAt,
                   probe, wret, attempts, okAttempts, prevEnd, listening,
                   listenAt, lateDial>>

WaitInit ==
    /\ wpc = "start"
    /\ wtimeout \in 0..MaxWaitTimeout
    /\ now = 0
    /\ wdeadline = 0
    /\ dialStart = 0
    /\ dialOK = FALSE
    /\ wakeAt = 0
    /\ probe = "none"
    /\ wret = "none"
    /\ attempts = 0
    /\ okAttempts = 0
    /\ prevEnd = -1
    /\ listening \in BOOLEAN
    /\ listenAt = IF listening THEN 0 ELSE -1
    /\ lateDial = FALSE
    /\ ctxDone = FALSE
    /\ ctxAt = -1

WaitNext == WaitStep \/ Tick \/ StartListening \/ CtxCancel

(***************************************************************************)
(* Runner.Start, Started.Stop, coreArgs (main.go lines 378-501)            *)
(***************************************************************************)

\* Names os.MkdirTemp may give the new directory.
MaxDirs == 2

S_socks   == <<115,111,99,107,115>>                       \* socks
S_http    == <<104,116,116,112>>                          \* http
S_ftp     == <<102,116,112>>                              \* ftp
S_socksSp == <<32,115,111,99,107,115,32>>                 \* " socks "
S_warning == <<119,97,114,110,105,110,103>>               \* warning
S_debug   == <<100,101,98,117,103>>                       \* debug
S_xray    == <<120,114,97,121>>                           \* xray
P_xray    == <<47,111,112,116,47,120,114,97,121>>         \* /opt/xray
P_v2ray   == <<47,117,115,114,47,98,105,110,47,118,50,114,97,121>> \* /usr/bin/v2ray
P_xrayDir == <<47,120,114,97,121,47,118,50,114,97,121>>   \* /xray/v2ray
P_XRay    == <<47,111,112,116,47,88,82,97,121,45,99,111,114,101>> \* /opt/XRay-core

Runners ==
    [CorePath : {<<>>, P_xray, P_v2ray, P_xrayDir, P_XRay},
     Port : {0, 1080},
     InboundProtocol : {<<>>, S_socks, S_http, S_ftp, S_socksSp},
     LogLevel : {<<>>, S_debug}]

\* The descriptors Start may be handed: a nil map, an empty map, a
\* descriptor, and a map holding a value encoding/json cannot marshal.
Outbounds ==
    { [nil |-> TRUE,  entries |-> 0, marshals |-> TRUE],
      [nil |-> FALSE, entries |-> 0, marshals |-> TRUE],
      [nil |-> FALSE, entries |-> 4, marshals |-> TRUE],
      [nil |-> FALSE, entries |-> 1, marshals |-> FALSE] }

Direct == [tag |-> "direct", protocol |-> "freedom"]

\* Lines 394-406 without the test of the port.
ValidateRunnerNoPort(r) ==
    IF r.CorePath = <<>> THEN "core path is required"
    ELSE IF TrimSpace(r.InboundProtocol) \notin {<<>>, S_socks, S_http}
    THEN "unsupported inbound protocol"
    ELSE ""

\* Lines 394-406: the error of the validation, "" when it passes.
ValidateRunner(r) ==
    IF r.CorePath = <<>> THEN "core path is required"
    ELSE IF r.Port = 0 THEN "local socks port is required"
    ELSE IF TrimSpace(r.InboundProtocol) \notin {<<>>, S_socks, S_http}
    THEN "unsupported inbound protocol"
    ELSE ""

\* Lines 400-403.
InboundProtocolOf(r) ==
    IF TrimSpace(r.InboundProtocol) = <<>> THEN S_socks
    ELSE TrimSpace(r.InboundProtocol)

\* Lines 407-410.
LogLevelOf(r) ==
    IF TrimSpace(r.LogLevel) = <<>> THEN S_warning ELSE TrimSpace(r.LogLevel)

\* Lines 412-419 with the settings set for every protocol.
InboundOfAlwaysSettings(r) ==
    [listen |-> "127.0.0.1", port |-> r.Port, protocol |-> InboundProtocolOf(r),
     settings |-> [udp |-> FALSE]]

\* Lines 412-419.
InboundOf(r) ==
    IF InboundProtocolOf(r) = S_socks
    THEN [listen |-> "127.0.0.1", port |-> r.Port, protocol |-> S_socks,
          settings |-> [udp |-> FALSE]]
    ELSE [listen |-> "127.0.0.1", port |-> r.Port, protocol |-> InboundProtocolOf(r)]

\* Lines 421-430: the cfg map as first built.
ConfigOf(r, ob) ==
    [log |-> [loglevel |-> LogLevelOf(r)],
     inbounds |-> <<InboundOf(r)>>,
     outbounds |-> <<ob, Direct>>]

\* json.MarshalIndent(cfg): the document as cfg holds it at the call.
Marshal(c) == c

\* filepath.Join(dir, name).
Join(d, name) == <<d, name>>

\* Lines 445-449: the log section with the paths.
LogSection(r, d) ==
    [loglevel |-> LogLevelOf(r),
     access |-> Join(d, "access.log"),
     error |-> Join(d, "core.log")]

IsSlash(c) == c = 47

RECURSIVE StripSlashes(_)
StripSlashes(p) ==
    IF p # <<>> /\ IsSlash(p[Len(p)]) THEN StripSlashes(Take(p, Len(p) - 1)) ELSE p

\* filepath.Base.
Base(p) ==
    IF p = <<>> THEN <<46>>
    ELSE IF StripSlashes(p) = <<>> THEN <<47>>
    ELSE Drop(StripSlashes(p), LastIndexByte(StripSlashes(p), 47))

\* strings.ToLower on ASCII.
ToLower(p) == [i \in 1..Len(p) |-> IF p[i] >= 65 /\ p[i] <= 90 THEN p[i] + 32 ELSE p[i]]

\* strings.Contains.
Contains(p, sub) ==
    \E i \in 1..(Len(p) - Len(sub) + 1) : SubSeq(p, i, i + Len(sub) - 1) = sub

\* Lines 495-501 with the whole path searched.
coreArgsWholePath(corePath, configPath) ==
    IF Contains(ToLower(corePath), S_xray)
    THEN <<"run", "-c", configPath>>
    ELSE <<"-config", configPath>>

\* Lines 495-501.
coreArgs(corePath, configPath) ==
    IF Contains(ToLower(Base(corePath)), S_xray)
    THEN <<"run", "-c", configPath>>
    ELSE <<"-config", configPath>>

NoStarted ==
    [nil |-> TRUE, Cmd |-> "nil", ConfigPath |-> <<>>, LogPath |-> <<>>,
     AccessLogPath |-> <<>>]

\* A failing return of Start: (nil, err).
StartFail(e) ==
    /\ serr' = e
    /\ started' = NoStarted
    /\ rpc' = "done"

\* Lines 394-435: validation, the cfg map, and its marshalling into body.
StartValidate ==
    /\ rpc = "validate"
    /\ \/ /\ ValidateRunner(runner) # ""
          /\ StartFail(ValidateRunner(runner))
          /\ UNCHANGED <<cfg, body>>
       \/ /\ ValidateRunner(runner) = ""
          /\ cfg' = ConfigOf(runner, outbound)
          /\ \/ /\ outbound.marshals
                /\ body' = Marshal(ConfigOf(runner, outbound))
                /\ rpc' = "mkdir"
                /\ UNCHANGED <<started, serr>>
             \/ /\ ~outbound.marshals
                /\ StartFail("marshal core config")
                /\ UNCHANGED body
    /\ UNCHANGED notStart
    /\ UNCHANGED <<runner, outbound, dir, files, logf, args, child>>
    /\ UNCHANGED stopVars

\* Lines 437-449: the temporary directory, the three paths in it, and the
\* log section of cfg replaced by one that names the log paths.
StartMkdir ==
    /\ rpc = "mkdir"
    /\ \/ /\ \E d \in 1..MaxDirs :
                /\ dir' = d
                /\ cfg' = [cfg EXCEPT !.log = LogSection(runner, d)]
          /\ rpc' = "write"
          /\ UNCHANGED <<started, serr>>
       \/ /\ StartFail("create temp dir")
          /\ UNCHANGED <<dir, cfg>>
    /\ UNCHANGED notStart
    /\ UNCHANGED <<runner, outbound, body, files, logf, args, child>>
    /\ UNCHANGED stopVars

\* Lines 450-452: os.WriteFile(configPath, body, 0o600).
StartWriteConfig ==
    /\ rpc = "write"
    /\ \/ /\ files' = (Join(dir, "config.json") :> body) @@ files
          /\ rpc' = "create"
          /\ UNCHANGED <<started, serr>>
       \/ /\ StartFail("write config")
          /\ UNCHANGED files
    /\ UNCHANGED notStart
    /\ UNCHANGED <<runner, outbound, cfg, body, dir, logf, args, child>>
    /\ UNCHANGED stopVars

\* Lines 454-457: os.Create(logPath).
StartCreateLog ==
    /\ rpc = "create"
    /\ \/ /\ files' = (Join(dir, "core.log") :> <<>>) @@ files
          /\ logf' = "open"
          /\ rpc' = "launch"
          /\ UNCHANGED <<started, serr>>
       \/ /\ StartFail("create log file")
          /\ UNCHANGED <<files, logf>>
    /\ UNCHANGED notStart
    /\ UNCHANGED <<runner, outbound, cfg, body, dir, args, child>>
    /\ UNCHANGED stopVars

\* Lines 465 and 468: logf.Close(), skipped.
CloseLogSkipped == "open"

\* Lines 465 and 468: logf.Close().
CloseLog == "closed"

\* Lines 459-470: the core is launched with the arguments of coreArgs; the
\* log handle is closed whether or not the launch succeeds.
StartLaunch ==
    /\ rpc = "launch"
    /\ args' = coreArgs(runner.CorePath, Join(dir, "config.json"))
    /\ logf' = CloseLog
    /\ \/ /\ child' = "running"
          /\ started' = [nil |-> FALSE, Cmd |-> "process",
                         ConfigPath |-> Join(dir, "config.json"),
                         LogPath |-> Join(dir, "core.log"),
                         AccessLogPath |-> Join(dir, "access.log")]
          /\ serr' = ""
          /\ rpc' = "done"
       \/ /\ StartFail("start core")
          /\ UNCHANGED child
    /\ UNCHANGED notStart
    /\ UNCHANGED <<runner, outbound, cfg, body, dir, files>>
    /\ UNCHANGED stopVars

\* Calls of Stop counted.
MaxStops == 2

\* The handles Stop may be called on: what Start returned, a nil *Started,
\* a Started without a Cmd, and one whose Cmd was never started.
Handles ==
    { started, NoStarted,
      [nil |-> FALSE, Cmd |-> "nil", ConfigPath |-> <<>>, LogPath |-> <<>>,
       AccessLogPath |-> <<>>],
      [nil |-> FALSE, Cmd |-> "unstarted", ConfigPath |-> <<>>,
       LogPath |-> <<>>, AccessLogPath |-> <<>>] }

\* Line 474: s == nil || s.Cmd == nil || s.Cmd.Process == nil.
NothingToStop(h) == h.nil \/ h.Cmd # "process"

HandleKind(h) ==
    IF h.nil THEN "nil" ELSE IF h.Cmd = "nil" THEN "nocmd"
    ELSE IF h.Cmd = "unstarted" THEN "noproc" ELSE "process"

\* Lines 477-478 without the kill: Wait returns only once the child exits.
KillSkipped(c) == c

\* Lines 477-478: Process.Kill() then Process.Wait(); both fail harmlessly
\* on a child that has exited or was waited for.
KillAndWait(c) == "exited"

\* Lines 473-479: Stop does nothing on a nil handle or one without a
\* process; otherwise it kills the child and waits for it.
Stop ==
    /\ rpc = "done"
    /\ stops < MaxStops
    /\ \E h \in Handles :
          /\ lastStop' = HandleKind(h)
          /\ \/ /\ NothingToStop(h)
                /\ UNCHANGED child
             \/ /\ ~NothingToStop(h)
                /\ child' = KillAndWait(child)
    /\ stops' = stops + 1
    /\ UNCHANGED notStart
    /\ UNCHANGED <<rpc, runner, outbound, cfg, body, dir, files, logf, args,
                   started, serr, sctxDone>>

\* The core exits on its own, or is killed by os/exec once the context of
\* exec.CommandContext (line 460) is done.
ChildExit ==
    /\ child = "running"
    /\ child' = "exited"
    /\ UNCHANGED notStart
    /\ UNCHANGED <<rpc, runner, outbound, cfg, body, dir, files, logf, args,
                   started, serr, stopVars>>

\* The context handed to Start is cancelled or times out.
StartCtxDone ==
    /\ rpc # "idle"
    /\ ~sctxDone
    /\ sctxDone' = TRUE
    /\ UNCHANGED notStart
    /\ UNCHANGED <<rpc, runner, outbound, cfg, body, dir, files, logf, args,
                   child, started, serr, stops, lastStop>>

StartInit ==
    /\ rpc = "validate"
    /\ runner \in Runners
    /\ outbound \in Outbounds
    /\ cfg = <<>>
    /\ body = <<>>
    /\ dir = 0
    /\ files = <<>>
    /\ logf = "nil"
    /\ args = <<>>
    /\ child = "none"
    /\ started = NoStarted
    /\ serr = ""
    /\ sctxDone = FALSE
    /\ stops = 0
    /\ lastStop = "none"

StartNext ==
    \/ StartValidate \/ StartMkdir \/ StartWriteConfig \/ StartCreateLog
    \/ StartLaunch \/ Stop \/ ChildExit \/ StartCtxDone

\* Runner.Start has not been called.
StartIdle ==
    /\ rpc = "idle" /\ runner = <<>> /\ outbound = <<>> /\ cfg = <<>>
    /\ body = <<>> /\ dir = 0 /\ files = <<>> /\ logf = "nil" /\ args = <<>>
    /\ child = "none" /\ started = NoStarted /\ serr = ""
    /\ sctxDone = FALSE /\ stops = 0 /\ lastStop = "none"

(***************************************************************************)
(* startRelay, its stop function and relayConn (part_000 lines 446-512)    *)
(***************************************************************************)

\* Bytes one direction of one connection carries, in units of 1000 bytes.
MaxBytes == 2

\* The connections that reach the listener.
ConnIds == {1, 2}

\* The bytes one direction of connection c carries at most: the first
\* connection is the long one, the others carry one unit.
ByteCap(c) == IF c = 1 THEN MaxBytes ELSE 1

\* A connection that has not reached the listener.  st is where the
\* connection stands: "idle", "queued" (in the listener's backlog),
\* "dropped" (never accepted), "accepted" (returned by Accept), "dial"
\* (relayConn started), "relay" (both copy goroutines started), "closed"
\* (relayConn returned).  upN and downN are the n of the two io.Copy calls.
\* cEOF, tEOF: the client, the target has closed or failed, so that reads
\* from it end and writes to it may fail.  cs and ts are the relay's two
\* sockets of the connection: "none", "open", "wclosed" (CloseWrite done),
\* "closed".
NewConn ==
    [st |-> "idle", upN |-> 0, downN |-> 0, upDone |-> FALSE,
     downDone |-> FALSE, cEOF |-> FALSE, tEOF |-> FALSE, late |-> FALSE,
     cs |-> "none", ts |-> "none"]

\* Lines 459-463 with the loop leaving on every error.
LoopExitsOnError(stopped) == TRUE

\* Lines 459-463: select { case <-stop: return; default: }.
LoopExits(stopped) == stopped

\* Line 511 with the handler waiting for one copy only.
EitherDone(r) == r.upDone \/ r.downDone

\* Lines 490 and 511: wg.Wait() on the two copy goroutines.
BothDone(r) == r.upDone /\ r.downDone

\* io.Copy returns once its source has ended or failed, or a write to its
\* destination has failed: src and dst tell whether the peer that is read
\* from, resp. written to, has closed or failed.
CopyMayEnd(src, dst) == src \/ dst

\* Line 466 left out.
WgAddSkipped(n) == n

\* Line 466: wg.Add(1).
WgAdd(n) == n + 1

\* Lines 494-496 without the test of n.
CounterAddOne(total, n) == total + 1

\* Lines 494-496 and 504-506: if n > 0 { total.Add(uint64(n)) }.
CounterAdd(total, n) == IF n > 0 THEN total + n ELSE total

\* Lines 494 and 504: whether Add is called.
AddCalls(n) == IF n > 0 THEN 1 ELSE 0

\* Lines 447-453 and 474: startRelay listens, starts the accept loop and
\* returns the stop function; or net.Listen fails.
RelayStart ==
    /\ ln = "none" /\ apc = "none"
    /\ \/ /\ ln' = "open"
          /\ rwg' = 1
          /\ apc' = "accept"
       \/ /\ ln' = "closed"
          /\ UNCHANGED <<apc, rwg>>
    /\ UNCHANGED notRelay
    /\ UNCHANGED <<stopCh, held, spc, rc, upTotal, downTotal, adds, snap>>

\* A client connects to the listener; the connections are numbered in the
\* order they arrive.
Arrive(c) ==
    /\ ln = "open" /\ rc[c].st = "idle"
    /\ \A d \in ConnIds : d < c => rc[d].st # "idle"
    /\ rc' = [rc EXCEPT ![c].st = "queued"]
    /\ UNCHANGED notRelay
    /\ UNCHANGED <<ln, stopCh, rwg, apc, held, spc, upTotal, downTotal, adds,
                   snap>>

\* Line 457: Accept returns a connection.
AcceptOK(c) ==
    /\ apc = "accept" /\ ln = "open" /\ rc[c].st = "queued"
    /\ rc' = [rc EXCEPT ![c].st = "accepted", ![c].late = (spc # "idle"),
                        ![c].cs = "open"]
    /\ held' = c
    /\ apc' = "spawn"
    /\ UNCHANGED notRelay
    /\ UNCHANGED <<ln, stopCh, rwg, spc, upTotal, downTotal, adds, snap>>

\* Lines 466-470: wg.Add(1) and the handler goroutine.
AcceptSpawn ==
    /\ apc = "spawn"
    /\ rwg' = WgAdd(rwg)
    /\ rc' = [rc EXCEPT ![held].st = "dial"]
    /\ held' = 0
    /\ apc' = "accept"
    /\ UNCHANGED notRelay
    /\ UNCHANGED <<ln, stopCh, spc, upTotal, downTotal, adds, snap>>

\* Lines 457-458: Accept returns an error: the listener is closed, or the
\* accept fails for the moment.
AcceptErr ==
    /\ apc = "accept" /\ ln \in {"open", "closed"}
    /\ apc' = "check"
    /\ UNCHANGED notRelay
    /\ UNCHANGED <<ln, stopCh, rwg, held, spc, rc, upTotal, downTotal, adds,
                   snap>>

\* Lines 459-464 and 455: after an error the loop returns if stop is closed
\* (wg.Done) and tries again otherwise.
AcceptCheck ==
    /\ apc = "check"
    /\ \/ /\ LoopExits(stopCh)
          /\ apc' = "exit"
          /\ rwg' = rwg - 1
       \/ /\ ~LoopExits(stopCh)
          /\ apc' = "accept"
          /\ UNCHANGED rwg
    /\ UNCHANGED notRelay
    /\ UNCHANGED <<ln, stopCh, held, spc, rc, upTotal, downTotal, adds, snap>>

\* Lines 483-490 (and 482, 468 when the dial fails): relayConn dials the
\* target and starts the two copy goroutines.
RelayDial(c) ==
    /\ rc[c].st = "dial"
    /\ \/ /\ rc' = [rc EXCEPT ![c].st = "relay", ![c].ts = "open"]
          /\ UNCHANGED rwg
       \/ /\ rc' = [rc EXCEPT ![c].st = "closed", ![c].cs = "closed"]
          /\ rwg' = rwg - 1
    /\ UNCHANGED notRelay
    /\ UNCHANGED <<ln, stopCh, apc, held, spc, upTotal, downTotal, adds, snap>>

\* The counter grows with every unit of bytes a copy moves.
DuringCopyCounted(total, n) == total + n

\* Lines 493 and 503: io.Copy moves bytes and leaves the meter alone; the
\* add of lines 494-496 and 504-506 comes after the copy has returned.
DuringCopy(total, n) == total

\* Line 493: io.Copy(target, client) moves the next unit of bytes.
CopyUp(c) ==
    /\ rc[c].st = "relay" /\ ~rc[c].upDone /\ ~rc[c].cEOF
    /\ rc[c].upN < ByteCap(c)
    /\ rc' = [rc EXCEPT ![c].upN = @ + 1]
    /\ upTotal' = DuringCopy(upTotal, 1)
    /\ UNCHANGED notRelay
    /\ UNCHANGED <<ln, stopCh, rwg, apc, held, spc, downTotal, adds, snap>>

\* Line 503: io.Copy(client, target) moves the next unit of bytes.
CopyDown(c) ==
    /\ rc[c].st = "relay" /\ ~rc[c].downDone /\ ~rc[c].tEOF
    /\ rc[c].downN < ByteCap(c)
    /\ rc' = [rc EXCEPT ![c].downN = @ + 1]
    /\ downTotal' = DuringCopy(downTotal, 1)
    /\ UNCHANGED notRelay
    /\ UNCHANGED <<ln, stopCh, rwg, apc, held, spc, upTotal, adds, snap>>

\* The client closes, or its side of the connection fails: reads from the
\* client end, and a write to it may fail.
ClientEOF(c) ==
    /\ rc[c].st = "relay" /\ ~rc[c].cEOF
    /\ rc' = [rc EXCEPT ![c].cEOF = TRUE]
    /\ UNCHANGED notRelay
    /\ UNCHANGED <<ln, stopCh, rwg, apc, held, spc, upTotal, downTotal, adds,
                   snap>>

\* The target closes, or its side of the connection fails: reads from the
\* target end, and a write to it may fail.
TargetEOF(c) ==
    /\ rc[c].st = "relay" /\ ~rc[c].tEOF
    /\ rc' = [rc EXCEPT ![c].tEOF = TRUE]
    /\ UNCHANGED notRelay
    /\ UNCHANGED <<ln, stopCh, rwg, apc, held, spc, upTotal, downTotal, adds,
                   snap>>

\* Lines 493-499: io.Copy has returned n; the uplink counter, CloseWrite.
UpEnd(c) ==
    /\ rc[c].st = "relay" /\ ~rc[c].upDone
    /\ CopyMayEnd(rc[c].cEOF, rc[c].tEOF)
    /\ upTotal' = CounterAdd(upTotal, rc[c].upN)
    /\ adds' = adds + AddCalls(rc[c].upN)
    /\ rc' = [rc EXCEPT ![c].upDone = TRUE, ![c].ts = "wclosed"]
    /\ UNCHANGED notRelay
    /\ UNCHANGED <<ln, stopCh, rwg, apc, held, spc, downTotal, snap>>

\* Lines 503-509: io.Copy has returned n; the downlink counter, CloseWrite.
DownEnd(c) ==
    /\ rc[c].st = "relay" /\ ~rc[c].downDone
    /\ CopyMayEnd(rc[c].tEOF, rc[c].cEOF)
    /\ downTotal' = CounterAdd(downTotal, rc[c].downN)
    /\ adds' = adds + AddCalls(rc[c].downN)
    /\ rc' = [rc EXCEPT ![c].downDone = TRUE, ![c].cs = "wclosed"]
    /\ UNCHANGED notRelay
    /\ UNCHANGED <<ln, stopCh, rwg, apc, held, spc, upTotal, snap>>

\* Lines 511, 487, 482 and 468: both copies are done; relayConn closes the
\* two connections, which ends them for both peers, and returns, and the
\* handler goroutine ends.
HandlerEnd(c) ==
    /\ rc[c].st = "relay" /\ BothDone(rc[c])
    /\ rc' = [rc EXCEPT ![c].st = "closed", ![c].cs = "closed",
                        ![c].ts = "closed", ![c].cEOF = TRUE, ![c].tEOF = TRUE]
    /\ rwg' = rwg - 1
    /\ UNCHANGED notRelay
    /\ UNCHANGED <<ln, stopCh, apc, held, spc, upTotal, downTotal, adds, snap>>

\* Line 475: the stop function is called: close(stop).
StopClose ==
    /\ spc = "idle" /\ ln = "open"
    /\ stopCh' = TRUE
    /\ spc' = "closing"
    /\ UNCHANGED notRelay
    /\ UNCHANGED <<ln, rwg, apc, held, rc, upTotal, downTotal, adds, snap>>

\* Line 476: ln.Close(); what waits in the backlog is never accepted.
StopLnClose ==
    /\ spc = "closing"
    /\ ln' = "closed"
    /\ rc' = [c \in ConnIds |->
                IF rc[c].st = "queued" THEN [rc[c] EXCEPT !.st = "dropped"]
                ELSE rc[c]]
    /\ spc' = "waiting"
    /\ UNCHANGED notRelay
    /\ UNCHANGED <<stopCh, rwg, apc, held, upTotal, downTotal, adds, snap>>

\* Lines 477-478: wg.Wait() returns once the counter is zero, and so does
\* the stop function.
StopWait ==
    /\ spc = "waiting" /\ rwg = 0
    /\ spc' = "returned"
    /\ snap' = <<upTotal, downTotal, adds>>
    /\ UNCHANGED notRelay
    /\ UNCHANGED <<ln, stopCh, rwg, apc, held, rc, upTotal, downTotal, adds>>

RelayInit ==
    /\ ln = "none" /\ stopCh = FALSE /\ rwg = 0 /\ apc = "none" /\ held = 0
    /\ spc = "idle" /\ rc = [c \in ConnIds |-> NewConn]
    /\ upTotal = 0 /\ downTotal = 0 /\ adds = 0 /\ snap = <<>>

\* The steps of the relay's own goroutines once stop has been called.
RelayStep ==
    \/ AcceptSpawn \/ AcceptErr \/ AcceptCheck
    \/ StopLnClose \/ StopWait
    \/ \E c \in ConnIds :
          AcceptOK(c) \/ RelayDial(c) \/ UpEnd(c) \/ DownEnd(c) \/ HandlerEnd(c)

RelayNext ==
    \/ RelayStart
    \/ \E c \in ConnIds : Arrive(c)
    \/ \E c \in ConnIds : AcceptOK(c)
    \/ AcceptSpawn
    \/ AcceptErr
    \/ AcceptCheck
    \/ \E c \in ConnIds : RelayDial(c)
    \/ \E c \in ConnIds : CopyUp(c)
    \/ \E c \in ConnIds : CopyDown(c)
    \/ \E c \in ConnIds : ClientEOF(c)
    \/ \E c \in ConnIds : TargetEOF(c)
    \/ \E c \in ConnIds : UpEnd(c)
    \/ \E c \in ConnIds : DownEnd(c)
    \/ \E c \in ConnIds : HandlerEnd(c)
    \/ StopClose
    \/ StopLnClose
    \/ StopWait

\* startRelay has not been called.
RelayIdle ==
    /\ ln = "idle" /\ stopCh = FALSE /\ rwg = 0 /\ apc = "none" /\ held = 0
    /\ spc = "idle" /\ rc = <<>>
    /\ upTotal = 0 /\ downTotal = 0 /\ adds = 0 /\ snap = <<>>

(***************************************************************************)
(* trafficMeter.run (part_000 lines 414-444)                               *)
(***************************************************************************)

\* The connection relayed while the reporter runs.
MeterConns == {1}

\* Lines 434-435 with the counter cleared by the read (Swap(0)).
AfterSwap(total) == 0

\* Lines 434-435: m.upTotal.Load(), m.downTotal.Load() leave the counter.
AfterLoad(total) == total

\* The rate printed is the counter itself.
RateTotal(cur, prev) == cur

\* Lines 436-437: upRate := up - prevUp, downRate := down - prevDown.
Rate(cur, prev) == cur - prev

\* Lines 433-441: a tick of the ticker: the counters are read, the rates
\* since the last tick are printed.
MeterTick ==
    /\ mpc = "run"
    /\ printed' = <<Rate(upTotal, prevUp), Rate(downTotal, prevDown),
                    upTotal, downTotal>>
    /\ rateSums' = <<rateSums[1] + Rate(upTotal, prevUp),
                     rateSums[2] + Rate(downTotal, prevDown)>>
    /\ prevUp' = upTotal
    /\ prevDown' = downTotal
    /\ upTotal' = AfterLoad(upTotal)
    /\ downTotal' = AfterLoad(downTotal)
    /\ UNCHANGED notMeter
    /\ UNCHANGED <<mpc, mstop>>
    /\ UNCHANGED <<ln, stopCh, rwg, apc, held, spc, rc, adds, snap>>

\* The owner of the reporter closes its stop channel (line 374).
MeterStopClose ==
    /\ mpc = "run" /\ ~mstop
    /\ mstop' = TRUE
    /\ UNCHANGED notMeter
    /\ UNCHANGED relayVars
    /\ UNCHANGED <<mpc, prevUp, prevDown, printed, rateSums>>

\* Lines 431-432 and 425: the reporter sees stop closed and returns.
MeterExit ==
    /\ mpc = "run" /\ mstop
    /\ mpc' = "exit"
    /\ UNCHANGED notMeter
    /\ UNCHANGED relayVars
    /\ UNCHANGED <<mstop, prevUp, prevDown, printed, rateSums>>

\* Lines 424-428: the reporter has started.
MeterInit ==
    /\ mpc = "run" /\ mstop = FALSE /\ prevUp = 0 /\ prevDown = 0
    /\ printed = <<>> /\ rateSums = <<0, 0>>

\* The reporter next to a relay with one connection.
MeterNext ==
    \/ MeterTick
    \/ MeterStopClose
    \/ MeterExit
    \/ RelayStart
    \/ \E c \in MeterConns : Arrive(c)
    \/ \E c \in MeterConns : AcceptOK(c)
    \/ AcceptSpawn
    \/ AcceptErr
    \/ AcceptCheck
    \/ \E c \in MeterConns : RelayDial(c)
    \/ \E c \in MeterConns : CopyUp(c)
    \/ \E c \in MeterConns : CopyDown(c)
    \/ \E c \in MeterConns : ClientEOF(c)
    \/ \E c \in MeterConns : TargetEOF(c)
    \/ \E c \in MeterConns : UpEnd(c)
    \/ \E c \in MeterConns : DownEnd(c)
    \/ \E c \in MeterConns : HandlerEnd(c)
    \/ StopClose
    \/ StopLnClose
    \/ StopWait

\* No reporter runs.
MeterIdle ==
    /\ mpc = "none" /\ mstop = FALSE /\ prevUp = 0 /\ prevDown = 0
    /\ printed = <<>> /\ rateSums = <<0, 0>>

(***************************************************************************)
(* runProbe, runSpeed, runProxy (part_000 lines 114-377)                   *)
(***************************************************************************)

Commands == {"probe", "speed", "proxy"}

\* Lines 153, 209, 321 left out.
DeferStopMissing(d) == d

\* Lines 153, 209, 321: defer started.Stop().
DeferStop(d) == <<"started.Stop">> \o d

\* Lines 331-341 with stopRelay put below the calls deferred before it.
DeferStopRelayLast(d, up) ==
    d \o <<(IF up THEN "relay.stop" ELSE "func(){}")>>

\* Lines 331-341: defer stopRelay(), the function stopRelay holds then.
DeferStopRelay(d, up) ==
    <<(IF up THEN "relay.stop" ELSE "func(){}")>> \o d

NoErr == [ctx |-> "", cause |-> "", tail |-> FALSE]

\* The errors of Runner.Start: of the runner's configuration and the files
\* it writes, and of the launch of the core.
StartErrors == {"config", "launch"}

\* The errors of waitSocks, and of probeHTTP and speedHTTP.
WaitErrors == {"not ready", "context"}

RequestErrors == {"transport", "unexpected HTTP status"}

\* A return statement: the value is set, the deferred calls come next.  An
\* error returned as it came is its own cause, with nothing around it.
Return(v) ==
    /\ uret' = v
    /\ uerr' = (IF v = "nil" THEN NoErr
                ELSE [ctx |-> "", cause |-> v, tail |-> FALSE])
    /\ upc' = "returning"

\* fmt.Errorf with %v in the place of %w.
ErrorfNoCause(ctx, e, tail) == [ctx |-> ctx, cause |-> "", tail |-> tail]

\* Lines 157, 162, 213, 218, 328, 336: fmt.Errorf("...: %w", err), with
\* "\ncore log tail:\n%s" and started.ReadLogTail() where tail is set.
Errorf(ctx, e, tail) == [ctx |-> ctx, cause |-> e, tail |-> tail]

\* return fmt.Errorf(...).
ReturnErrorf(ctx, e, tail) ==
    /\ uret' = ctx
    /\ uerr' = Errorf(ctx, e, tail)
    /\ upc' = "returning"

\* The values of --local-port and --local-socks, and the outcomes of
\* randomPort (lines 624-627: 20000 + r.Intn(20000)).
LocalPorts == {0, 1080, 20000, 65536}

RandomPorts == {20000, 20001, 39999}

\* Lines 271-277: the default of --local-port (inbound socks).
DefaultPort(p) == IF p = 0 THEN 1080 ELSE p

\* Lines 298-304 with one call of randomPort only.
CorePortNoRetry(local, show, r) == IF show THEN r[1] ELSE local

\* Lines 298-304: the port of the core in runProxy, r the outcomes of the
\* calls of randomPort: the local port when no traffic is shown, else the
\* first outcome, or the second when the first is the local port.
CorePort(local, show, r) ==
    IF ~show THEN local
    ELSE IF r[1] = local THEN r[2] ELSE r[1]

\* Lines 156-158 with the error of waitSocks passed over.
AfterWaitSocksIgnored(ok, cmd) == IF cmd = "proxy" THEN "relay" ELSE "harness"

\* Lines 155-158, 211-214, 327-329: where the command goes after
\* waitSocks: to its return on an error, else to the harness or the relay.
AfterWaitSocks(ok, cmd) ==
    IF ~ok THEN "returning"
    ELSE IF cmd = "proxy" THEN "relay" ELSE "harness"

\* What happens is written down in its order.
Event(e) == events' = Append(events, e)

\* Lines 115-133, 170-189, 253-285: the flags, the URI and the core path;
\* runProbe and runSpeed then make their context and defer its cancel.
RunArgs ==
    /\ upc = "args"
    /\ \/ /\ \E e \in {"flag", "--uri is required", "core path"} : Return(e)
          /\ UNCHANGED <<defers, localPort>>
       \/ /\ ucmd = "proxy"
          /\ Return("--inbound must be socks or http")
          /\ UNCHANGED <<defers, localPort>>
       \/ /\ ucmd = "proxy"
          /\ DefaultPort(localPort) > 65535
          /\ Return("--local-port must be in range 1..65535")
          /\ localPort' = DefaultPort(localPort)
          /\ UNCHANGED defers
       \/ /\ ucmd = "proxy" => DefaultPort(localPort) <= 65535
          /\ localPort' = (IF ucmd = "proxy" THEN DefaultPort(localPort)
                           ELSE localPort)
          /\ upc' = "provider"
          /\ defers' = (IF ucmd = "proxy" THEN defers ELSE <<"cancel">> \o defers)
          /\ UNCHANGED <<uret, uerr>>
    /\ UNCHANGED notRun
    /\ UNCHANGED <<upolled, events, corePort, draws>>
    /\ UNCHANGED <<ucmd, showTraffic, printRequests, coreUp, stopCalls, relayUp,
                   relayStops, tasks, chansClosed, sigPending>>

\* Lines 135-146, 191-202, 287-304: provider.FromURI and prov.Outbound,
\* then the port of the core: in runProbe and runSpeed the flag, or
\* randomPort when it is 0.
RunProvider ==
    /\ upc = "provider"
    /\ \/ /\ \E e \in {"provider", "outbound"} : Return(e)
          /\ UNCHANGED <<corePort, draws>>
       \/ /\ upc' = "start"
          /\ UNCHANGED <<uret, uerr>>
          /\ \E r1, r2 \in RandomPorts :
               IF ucmd = "proxy"
               THEN /\ draws' = (IF ~showTraffic THEN <<>>
                                 ELSE IF r1 = localPort THEN <<r1, r2>>
                                 ELSE <<r1>>)
                    /\ corePort' = CorePort(localPort, showTraffic, <<r1, r2>>)
               ELSE /\ draws' = (IF localPort = 0 THEN <<r1>> ELSE <<>>)
                    /\ corePort' = (IF localPort = 0 THEN r1 ELSE localPort)
    /\ UNCHANGED notRun
    /\ UNCHANGED <<upolled, events, localPort>>
    /\ UNCHANGED <<ucmd, showTraffic, printRequests, defers, coreUp, stopCalls,
                   relayUp, relayStops, tasks, chansClosed, sigPending>>

\* Lines 148-153, 204-209, 317-326: r.Start; on success defer
\* started.Stop(), and in runProxy the startup context's cancel after it.
RunStart ==
    /\ upc = "start"
    /\ \/ /\ \E e \in StartErrors : Return(e)
          /\ UNCHANGED <<coreUp, defers, events>>
       \/ /\ coreUp' = TRUE
          /\ Event("core started")
          /\ defers' = (IF ucmd = "proxy" THEN <<"cancel">> \o DeferStop(defers)
                        ELSE DeferStop(defers))
          /\ upc' = "wait"
          /\ UNCHANGED <<uret, uerr>>
    /\ UNCHANGED notRun
    /\ UNCHANGED <<upolled, localPort, corePort, draws>>
    /\ UNCHANGED <<ucmd, showTraffic, printRequests, stopCalls, relayUp,
                   relayStops, tasks, chansClosed, sigPending>>

\* Lines 155-158, 211-214, 327-329: waitSocks.
RunWaitSocks ==
    /\ upc = "wait"
    /\ upolled' = TRUE
    /\ \/ /\ \E e \in WaitErrors :
                /\ uret' = "core did not become ready"
                /\ uerr' = Errorf("core did not become ready", e, TRUE)
          /\ upc' = AfterWaitSocks(FALSE, ucmd)
          /\ Event("not ready")
       \/ /\ upc' = AfterWaitSocks(TRUE, ucmd)
          /\ Event("ready")
          /\ UNCHANGED <<uret, uerr>>
    /\ UNCHANGED notRun
    /\ UNCHANGED <<localPort, corePort, draws>>
    /\ UNCHANGED <<ucmd, showTraffic, printRequests, defers, coreUp, stopCalls,
                   relayUp, relayStops, tasks, chansClosed, sigPending>>

\* Lines 160-166 and 216-222: probeHTTP or speedHTTP, and the report.
RunHarness ==
    /\ upc = "harness"
    /\ Event("request")
    /\ \/ \E e \in RequestErrors : ReturnErrorf("request failed", e, TRUE)
       \/ Return("nil")
    /\ UNCHANGED notRun
    /\ UNCHANGED <<upolled, localPort, corePort, draws>>
    /\ UNCHANGED <<ucmd, showTraffic, printRequests, defers, coreUp, stopCalls,
                   relayUp, relayStops, tasks, chansClosed, sigPending>>

\* Lines 331-341: the relay when traffic is shown, and defer stopRelay().
\* net.Listen fails on the address the core listens on.
RunRelay ==
    /\ upc = "relay"
    /\ \/ /\ showTraffic
          /\ ReturnErrorf("start local relay", "listen", FALSE)
          /\ UNCHANGED <<relayUp, defers, events>>
       \/ /\ showTraffic => corePort # localPort
          /\ relayUp' = showTraffic
          /\ events' = (IF showTraffic THEN Append(events, "relay opened")
                        ELSE events)
          /\ defers' = DeferStopRelay(defers, showTraffic)
          /\ upc' = "notify"
          /\ UNCHANGED <<uret, uerr>>
    /\ UNCHANGED notRun
    /\ UNCHANGED <<upolled, localPort, corePort, draws>>
    /\ UNCHANGED <<ucmd, showTraffic, printRequests, coreUp, stopCalls,
                   relayStops, tasks, chansClosed, sigPending>>

\* Lines 343-371: signal.Notify, defer signal.Stop, and the goroutines
\* that stream the log and print the traffic.
RunNotify ==
    /\ upc = "notify"
    /\ defers' = <<"signal.Stop">> \o defers
    /\ tasks' = (IF printRequests THEN {"streamLog"} ELSE {})
                 \cup (IF showTraffic THEN {"meter.run"} ELSE {})
    /\ upc' = "await"
    /\ UNCHANGED notRun
    /\ UNCHANGED <<upolled, events, localPort, corePort, draws>>
    /\ UNCHANGED <<ucmd, showTraffic, printRequests, coreUp, stopCalls, relayUp,
                   relayStops, chansClosed, sigPending, uret, uerr>>

\* An interrupt or SIGTERM arrives once signal.Notify is in force.
Interrupt ==
    /\ upc = "await" /\ ~sigPending
    /\ sigPending' = TRUE
    /\ Event("interrupt")
    /\ UNCHANGED notRun
    /\ UNCHANGED <<upolled, localPort, corePort, draws>>
    /\ UNCHANGED <<ucmd, upc, showTraffic, printRequests, defers, coreUp,
                   stopCalls, relayUp, relayStops, tasks, chansClosed, uret, uerr>>

\* Lines 372-374: <-sigCh, close(stopLog), close(stopTraffic).
RunAwait ==
    /\ upc = "await" /\ sigPending
    /\ sigPending' = FALSE
    /\ chansClosed' = TRUE
    /\ Event("signalled")
    /\ upc' = "join"
    /\ UNCHANGED notRun
    /\ UNCHANGED <<upolled, localPort, corePort, draws>>
    /\ UNCHANGED <<ucmd, showTraffic, printRequests, defers, coreUp, stopCalls,
                   relayUp, relayStops, tasks, uret, uerr>>

\* Lines 382-384 and 431-432: a goroutine sees its stop channel closed.
TaskExit ==
    /\ chansClosed
    /\ \E t \in tasks : tasks' = tasks \ {t}
    /\ UNCHANGED notRun
    /\ UNCHANGED <<upolled, events, localPort, corePort, draws>>
    /\ UNCHANGED <<ucmd, upc, showTraffic, printRequests, defers, coreUp,
                   stopCalls, relayUp, relayStops, chansClosed, sigPending, uret, uerr>>

\* Lines 375-376: wg.Wait() and return nil.
RunJoin ==
    /\ upc = "join" /\ tasks = {}
    /\ Event("joined")
    /\ Return("nil")
    /\ UNCHANGED notRun
    /\ UNCHANGED <<upolled, localPort, corePort, draws>>
    /\ UNCHANGED <<ucmd, showTraffic, printRequests, defers, coreUp, stopCalls,
                   relayUp, relayStops, tasks, chansClosed, sigPending>>

\* The function returns: the deferred call registered last runs, to its
\* end.
RunDefer ==
    /\ upc = "returning" /\ defers # <<>>
    /\ defers' = Tail(defers)
    /\ stopCalls' = stopCalls + (IF Head(defers) = "started.Stop" THEN 1 ELSE 0)
    /\ relayStops' = relayStops + (IF Head(defers) = "relay.stop" THEN 1 ELSE 0)
    /\ events' = (IF Head(defers) = "started.Stop"
                  THEN Append(events, "core stopped")
                  ELSE IF Head(defers) = "relay.stop"
                  THEN Append(events, "relay stopped")
                  ELSE events)
    /\ UNCHANGED notRun
    /\ UNCHANGED <<upolled, localPort, corePort, draws>>
    /\ UNCHANGED <<ucmd, upc, showTraffic, printRequests, coreUp, relayUp,
                   tasks, chansClosed, sigPending, uret, uerr>>

\* No deferred call is left: the function has returned.
RunReturn ==
    /\ upc = "returning" /\ defers = <<>>
    /\ upc' = "done"
    /\ Event("returned")
    /\ UNCHANGED notRun
    /\ UNCHANGED <<upolled, localPort, corePort, draws>>
    /\ UNCHANGED <<ucmd, showTraffic, printRequests, defers, coreUp, stopCalls,
                   relayUp, relayStops, tasks, chansClosed, sigPending, uret, uerr>>

RunInit ==
    /\ ucmd \in Commands
    /\ upc = "args"
    /\ showTraffic \in BOOLEAN
    /\ printRequests \in BOOLEAN
    /\ (ucmd # "proxy" => (~showTraffic /\ ~printRequests))
    /\ defers = <<>> /\ coreUp = FALSE /\ stopCalls = 0 /\ relayUp = FALSE
    /\ relayStops = 0 /\ tasks = {} /\ chansClosed = FALSE
    /\ sigPending = FALSE /\ uret = "none" /\ uerr = NoErr
    /\ upolled = FALSE /\ events = <<>>
    /\ localPort \in LocalPorts
    /\ (ucmd # "proxy" => localPort \in {0, 1080})
    /\ corePort = 0 /\ draws = <<>>

RunNext ==
    \/ RunArgs \/ RunProvider \/ RunStart \/ RunWaitSocks \/ RunHarness
    \/ RunRelay \/ RunNotify \/ Interrupt \/ RunAwait \/ TaskExit \/ RunJoin
    \/ RunDefer \/ RunReturn

\* No command has been run.
RunIdle ==
    /\ ucmd = "none" /\ upc = "idle" /\ showTraffic = FALSE
    /\ printRequests = FALSE /\ defers = <<>> /\ coreUp = FALSE
    /\ stopCalls = 0 /\ relayUp = FALSE /\ relayStops = 0 /\ tasks = {}
    /\ chansClosed = FALSE /\ sigPending = FALSE /\ uret = "none"
    /\ uerr = NoErr /\ upolled = FALSE /\ events = <<>> /\ localPort = 0
    /\ corePort = 0 /\ draws = <<>>

\* DialSocks5 has not been called.
SocksIdle ==
    /\ pc = "idle" /\ targetAddr = <<>> /\ timeout = 0 /\ conn = "nil"
    /\ deadline = "none" /\ sent = <<>> /\ resp = <<>> /\ req = <<>>
    /\ head = <<>> /\ br = <<>> /\ skip = 0 /\ trash = <<>> /\ nread = 0
    /\ ret = NoReturn /\ proxyStage = "greet" /\ flight = <<>>
    /\ inbox = <<>> /\ peerClosed = FALSE

\* waitSocks has not been called.
WaitIdle ==
    /\ wpc = "idle" /\ wtimeout = 0 /\ now = 0 /\ wdeadline = 0
    /\ dialStart = 0 /\ dialOK = FALSE /\ wakeAt = 0 /\ probe = "none"
    /\ wret = "none" /\ attempts = 0 /\ okAttempts = 0 /\ prevEnd = -1
    /\ listening = FALSE /\ listenAt = -1 /\ lateDial = FALSE
    /\ ctxDone = FALSE /\ ctxAt = -1

(***************************************************************************)
(* Started.ReadLogTail (main.go lines 481-493)                             *)
(***************************************************************************)

\* Writes of the core to its error log.
MaxLogWrites == 3

\* Line 489: the bytes of the log ReadLogTail returns at most.
TailLimit == 4000

\* The sizes of one write of the core.
LogChunks == {1, 1999, 2000}

\* The handles ReadLogTail may be called on: a nil *Started, a Started
\* whose LogPath is empty, and what Start returned.
LogHandles ==
    { NoStarted,
      [nil |-> FALSE, Cmd |-> "process", ConfigPath |-> Join(1, "config.json"),
       LogPath |-> <<>>, AccessLogPath |-> <<>>],
      [nil |-> FALSE, Cmd |-> "process", ConfigPath |-> Join(1, "config.json"),
       LogPath |-> Join(1, "core.log"),
       AccessLogPath |-> Join(1, "access.log")] }

\* Lines 481-493 with the first bytes kept instead of the last.
ReadLogHead(h, file, content) ==
    IF h.nil \/ h.LogPath = <<>> THEN <<>>
    ELSE IF file # "ok" THEN <<>>
    ELSE IF Len(content) > TailLimit THEN SubSeq(content, 1, TailLimit)
    ELSE content

\* Lines 481-493.
ReadLogTail(h, file, content) ==
    IF h.nil \/ h.LogPath = <<>> THEN <<>>
    ELSE IF file # "ok" THEN <<>>
    ELSE IF Len(content) > TailLimit
    THEN SubSeq(content, Len(content) - TailLimit + 1, Len(content))
    ELSE content

\* The core writes k bytes to its error log.
LogAppend ==
    /\ lfile = "ok" /\ lwrites < MaxLogWrites
    /\ \E k \in LogChunks :
          lcontent' = [i \in 1..(Len(lcontent) + k) |-> i]
    /\ lwrites' = lwrites + 1
    /\ UNCHANGED notLog
    /\ UNCHANGED <<lfile, lcall, ltail>>

\* The log file is removed, or made unreadable, or restored.
LogFileChange ==
    /\ \E f \in {"missing", "unreadable", "ok"} :
          /\ f # lfile
          /\ lfile' = f
          /\ lcontent' = (IF f = "missing" THEN <<>> ELSE lcontent)
    /\ UNCHANGED notLog
    /\ UNCHANGED <<lwrites, lcall, ltail>>

\* A call of ReadLogTail.
ReadLogTailCall ==
    /\ \E h \in LogHandles :
          /\ lcall' = [h |-> h, file |-> lfile, n |-> Len(lcontent)]
          /\ ltail' = ReadLogTail(h, lfile, lcontent)
    /\ lcall' # lcall
    /\ UNCHANGED notLog
    /\ UNCHANGED <<lfile, lcontent, lwrites>>

LogInit ==
    /\ lfile \in {"missing", "ok"} /\ lcontent = <<>> /\ lwrites = 0
    /\ lcall = <<>> /\ ltail = <<>>

LogNext == LogAppend \/ LogFileChange \/ ReadLogTailCall

\* No log is looked at.
LogIdle ==
    /\ lfile = "none" /\ lcontent = <<>> /\ lwrites = 0
    /\ lcall = <<>> /\ ltail = <<>>

(***************************************************************************)
(* probeHTTP and speedHTTP (part_000 lines 551-597)                        *)
(***************************************************************************)

\* Ticks of the clock during one request.
MaxHttpTime == 2

\* Line 563: the bytes of the body probeHTTP reads at most.
ProbeCap == 2048

\* Line 580: the first status speedHTTP rejects.
ErrorStatus == 400

Statuses == {200, 204, 304, 399, 400, 404, 500}

BodyLengths == {0, 50, 100, 150, 2047, 2049}

MaxBytesValues == {0, 100}

\* The sizes of one Read of the body.
ReadSizes == {50, 2048}

NoResult == [set |-> FALSE, err |-> "", bytes |-> 0, code |-> 0, elapsed |-> 0]

\* A failing return: every other result is zero.
HttpFail(e) ==
    /\ hres' = [set |-> TRUE, err |-> e, bytes |-> 0, code |-> 0, elapsed |-> 0]
    /\ hpc' = "done"

\* Lines 564 and 596: the successful return.
HttpReturn ==
    /\ hres' = [set |-> TRUE, err |-> "", bytes |-> hread,
                code |-> (IF hfn = "probe" THEN hstatus ELSE 0),
                elapsed |-> hnow - hstart]
    /\ hpc' = "done"

\* Line 580 with 400 itself let through.
StatusRejectedAbove(code) == code > ErrorStatus

\* Line 580: resp.StatusCode >= 400.
StatusRejected(code) == code >= ErrorStatus

\* Lines 563, 585-591 with no budget at all.
ReadLimitNone(fn, max) == -1

\* Lines 563, 585-591: the bytes the function reads at most: 2048 in
\* probeHTTP, maxBytes in speedHTTP when positive, no limit (-1) otherwise.
ReadLimit(fn, max) ==
    IF fn = "probe" THEN ProbeCap ELSE IF max > 0 THEN max ELSE -1

\* Line 563 with the error of io.CopyN returned.
BodyErrorFailsAlways(fn) == TRUE

\* Lines 563, 587-594: probeHTTP drops the error of io.CopyN, speedHTTP
\* returns every error of the copy but the io.EOF of a short body.
BodyErrorFails(fn) == fn = "speed"

\* The bytes one more Read may take: what is left of the body, of the
\* budget, and of the part of the body that arrives.
Readable ==
    LET left == hbody - hread
        ok == IF hfailAt >= 0 THEN Min(left, hfailAt - hread) ELSE left
    IN  IF ReadLimit(hfn, hmax) >= 0 THEN Min(ok, ReadLimit(hfn, hmax) - hread)
        ELSE ok

\* Lines 552-557 and 568-573: the request is built, the clock is read.
HttpNewRequest ==
    /\ hpc = "new"
    /\ \/ HttpFail("new request") /\ UNCHANGED hstart
       \/ /\ hstart' = hnow
          /\ hpc' = "do"
          /\ UNCHANGED hres
    /\ UNCHANGED notHttp
    /\ UNCHANGED <<hfn, hmax, hstatus, hbody, hfailAt, hnow, hread>>

\* Lines 558-562 and 574-578: client.Do fails, or gives the response.
HttpDo ==
    /\ hpc = "do"
    /\ \/ HttpFail("transport")
       \/ /\ hpc' = (IF hfn = "speed" THEN "status" ELSE "read")
          /\ UNCHANGED hres
    /\ UNCHANGED notHttp
    /\ UNCHANGED <<hfn, hmax, hstatus, hbody, hfailAt, hnow, hstart, hread>>

\* Lines 580-582: speedHTTP rejects the status.
HttpStatus ==
    /\ hpc = "status"
    /\ \/ /\ StatusRejected(hstatus)
          /\ HttpFail("unexpected HTTP status")
       \/ /\ ~StatusRejected(hstatus)
          /\ hpc' = "read"
          /\ UNCHANGED hres
    /\ UNCHANGED notHttp
    /\ UNCHANGED <<hfn, hmax, hstatus, hbody, hfailAt, hnow, hstart, hread>>

\* Lines 563, 586, 591: one Read of io.CopyN or io.Copy takes bytes.
HttpRead ==
    /\ hpc = "read" /\ Readable > 0
    /\ \E k \in ReadSizes : hread' = hread + Min(k, Readable)
    /\ UNCHANGED notHttp
    /\ UNCHANGED <<hfn, hmax, hstatus, hbody, hfailAt, hpc, hnow, hstart, hres>>

\* Lines 563-564, 586-596: the copy ends: the budget is used up, or the
\* body has ended, or reading it has failed.
HttpCopyEnd ==
    /\ hpc = "read" /\ Readable = 0
    /\ \/ /\ hread # ReadLimit(hfn, hmax) /\ hfailAt = hread
          /\ BodyErrorFails(hfn)
          /\ HttpFail("read body")
       \/ /\ ~(hread # ReadLimit(hfn, hmax) /\ hfailAt = hread /\ BodyErrorFails(hfn))
          /\ HttpReturn
    /\ UNCHANGED notHttp
    /\ UNCHANGED <<hfn, hmax, hstatus, hbody, hfailAt, hnow, hstart, hread>>

\* Time passes while the request runs.
HttpTick ==
    /\ hpc \in {"do", "status", "read"} /\ hnow < MaxHttpTime
    /\ hnow' = hnow + 1
    /\ UNCHANGED notHttp
    /\ UNCHANGED <<hfn, hmax, hstatus, hbody, hfailAt, hpc, hstart, hread, hres>>

HttpInit ==
    /\ hfn \in {"probe", "speed"}
    /\ hmax \in MaxBytesValues
    /\ (hfn = "probe" => hmax = 0)
    /\ hstatus \in Statuses
    /\ hbody \in BodyLengths
    /\ hfailAt \in {-1, 0, 50}
    /\ hfailAt < hbody
    /\ hpc = "new" /\ hnow = 0 /\ hstart = 0 /\ hread = 0 /\ hres = NoResult

HttpNext ==
    \/ HttpNewRequest \/ HttpDo \/ HttpStatus \/ HttpRead \/ HttpCopyEnd
    \/ HttpTick

\* No request is made.
HttpIdle ==
    /\ hfn = "none" /\ hmax = 0 /\ hstatus = 0 /\ hbody = 0 /\ hfailAt = -1
    /\ hpc = "idle" /\ hnow = 0 /\ hstart = 0 /\ hread = 0 /\ hres = NoResult

(***************************************************************************)
(* resolveCorePath (part_000 lines 629-667)                                *)
(***************************************************************************)

\* Lines 638-643: candidates, as paths below exeDir.
candidates == <<"xray", "v2ray", "core/xray", "core/v2ray">>

\* Line 652: the names looked up in PATH.
names == <<"xray", "v2ray">>

\* What os.Stat may find at a path: nothing, a directory, a regular file
\* with or without an execute bit, a named pipe with one.
FileInfos ==
    { [kind |-> "missing", perm |-> 0],
      [kind |-> "dir", perm |-> 493],
      [kind |-> "regular", perm |-> 420],
      [kind |-> "regular", perm |-> 493],
      [kind |-> "pipe", perm |-> 448] }

FlagPaths == { <<>>, <<32, 9>>, <<32>> \o S_xray \o <<32>> }

NoCore == [set |-> FALSE, from |-> "", path |-> <<>>, i |-> 0, err |-> FALSE]

\* Lines 661-667 without info.IsDir().
isExecutableFileAnyKind(info) ==
    /\ info.kind # "missing"
    /\ \/ (info.perm \div 64) % 2 = 1
       \/ (info.perm \div 8) % 2 = 1
       \/ info.perm % 2 = 1

\* Lines 661-667: os.Stat succeeds, the entry is no directory, and one of
\* the bits 0o111 of its permissions is set.
isExecutableFile(info) ==
    /\ info.kind # "missing" /\ info.kind # "dir"
    /\ \/ (info.perm \div 64) % 2 = 1
       \/ (info.perm \div 8) % 2 = 1
       \/ info.perm % 2 = 1

\* Lines 631-633: an explicit path wins.
ResolveFlag ==
    /\ cpc = "flag"
    /\ IF TrimSpace(flagPath) # <<>>
       THEN /\ cres' = [set |-> TRUE, from |-> "flag", path |-> flagPath,
                         i |-> 0, err |-> FALSE]
            /\ cpc' = "done"
       ELSE /\ cpc' = "exe"
            /\ UNCHANGED cres
    /\ UNCHANGED notCore
    /\ UNCHANGED <<flagPath, exeOK, stats, inPath, ci>>

\* Lines 635-637: os.Executable.
ResolveExecutable ==
    /\ cpc = "exe"
    /\ cpc' = (IF exeOK THEN "candidates" ELSE "PATH")
    /\ ci' = 1
    /\ UNCHANGED notCore
    /\ UNCHANGED <<flagPath, exeOK, stats, inPath, cres>>

\* Lines 644-648: one turn of the loop over candidates.
ResolveCandidate ==
    /\ cpc = "candidates"
    /\ IF ci > Len(candidates)
       THEN cpc' = "PATH" /\ ci' = 1 /\ UNCHANGED cres
       ELSE IF isExecutableFile(stats[ci])
       THEN /\ cres' = [set |-> TRUE, from |-> "exeDir", path |-> <<>>,
                         i |-> ci, err |-> FALSE]
            /\ cpc' = "done"
            /\ UNCHANGED ci
       ELSE ci' = ci + 1 /\ UNCHANGED <<cpc, cres>>
    /\ UNCHANGED notCore
    /\ UNCHANGED <<flagPath, exeOK, stats, inPath>>

\* Lines 652-656: one turn of the loop over the names, exec.LookPath.
ResolveLookPath ==
    /\ cpc = "PATH" /\ ci <= Len(names)
    /\ IF ci \in inPath
       THEN /\ cres' = [set |-> TRUE, from |-> "PATH", path |-> <<>>,
                         i |-> ci, err |-> FALSE]
            /\ cpc' = "done"
            /\ UNCHANGED ci
       ELSE ci' = ci + 1 /\ UNCHANGED <<cpc, cres>>
    /\ UNCHANGED notCore
    /\ UNCHANGED <<flagPath, exeOK, stats, inPath>>

\* Line 658: core binary not found.
ResolveNotFound ==
    /\ cpc = "PATH" /\ ci > Len(names)
    /\ cres' = [set |-> TRUE, from |-> "", path |-> <<>>, i |-> 0,
                err |-> TRUE]
    /\ cpc' = "done"
    /\ UNCHANGED notCore
    /\ UNCHANGED <<flagPath, exeOK, stats, inPath, ci>>

CoreInit ==
    /\ flagPath \in FlagPaths
    /\ exeOK \in BOOLEAN
    /\ stats \in [1..Len(candidates) -> FileInfos]
    /\ inPath \in SUBSET (1..Len(names))
    /\ cpc = "flag" /\ ci = 0 /\ cres = NoCore

CoreNext ==
    \/ ResolveFlag \/ ResolveExecutable \/ ResolveCandidate
    \/ ResolveLookPath \/ ResolveNotFound

\* resolveCorePath has not been called.
CoreIdle ==
    /\ flagPath = <<>> /\ exeOK = FALSE /\ stats = <<>> /\ inPath = {}
    /\ cpc = "idle" /\ ci = 0 /\ cres = NoCore

(***************************************************************************)
(* provider.FromURI, parseVLESS, parseVMess, Outbound (part_001)           *)
(***************************************************************************)

\* JSON values: a key that is absent, a string, a number.
Absent == [kind |-> "absent", s |-> <<>>, n |-> 0]

JStr(s) == [kind |-> "string", s |-> s, n |-> 0]

JNum(n) == [kind |-> "number", s |-> <<>>, n |-> n]

S_443 == <<52, 52, 51>>                                   \* 443

S_1 == <<49>>                                             \* 1

S_0 == <<48>>                                             \* 0

S_abc == <<97, 98, 99>>                                   \* abc

S_tcp == <<116, 99, 112>>                                 \* tcp

S_ws == <<119, 115>>                                      \* ws

S_grpc == <<103, 114, 112, 99>>                           \* grpc

S_tls == <<116, 108, 115>>                                \* tls

S_TLS == <<84, 76, 83>>                                   \* TLS

S_none == <<110, 111, 110, 101>>                          \* none

S_reality == <<114, 101, 97, 108, 105, 116, 121>>         \* reality

S_auto == <<97, 117, 116, 111>>                           \* auto

S_host == <<101, 120, 46, 99, 111, 109>>                  \* ex.com

S_hosts == <<97, 46, 99, 44, 32, 98, 46, 99>>             \* a.c, b.c

S_sni == <<115, 46, 99>>                                  \* s.c

S_slash == <<47>>                                         \* /

S_id == <<50, 100, 54, 55>>                               \* 2d67

S_hostport == <<101, 120, 46, 99, 111, 109, 58, 52, 52, 51>>   \* ex.com:443

S_badport == <<101, 120, 46, 99, 111, 109, 58, 97, 98, 99>>    \* ex.com:abc

\* The payloads of the vmess URIs.
VMessPayloads ==
    [add  : {Absent, JStr(S_host)},
     port : {Absent, JNum(443), JNum(0), JStr(S_443), JStr(S_abc)},
     id   : {JStr(<<>>), JStr(S_id)},
     aid  : {Absent, JNum(0), JNum(1), JStr(S_0), JStr(S_1), JStr(S_abc)},
     net  : {Absent, JStr(S_tcp), JStr(S_ws)},
     type : {Absent, JStr(S_http)},
     host : {Absent, JStr(S_hosts)},
     tls  : {Absent, JStr(S_TLS)}]

NoPayload ==
    [add |-> Absent, port |-> Absent, id |-> JStr(<<>>), aid |-> Absent,
     net |-> Absent, type |-> Absent, host |-> Absent, tls |-> Absent]

\* The user part, the host part and the query of the vless URIs.
NoUser == [nil |-> TRUE, name |-> <<>>]

Users ==
    {NoUser, [nil |-> FALSE, name |-> <<>>], [nil |-> FALSE, name |-> S_id]}

HostPorts == {S_hostport, S_host, S_badport}

Queries ==
    [type     : {<<>>, S_ws, S_grpc},
     security : {<<>>, S_tls, S_reality},
     sni      : {<<>>, S_sni},
     pbk      : {<<>>, S_abc},
     sid      : {<<>>, S_1},
     fp       : {<<>>, S_0}]

NoQuery ==
    [type |-> <<>>, security |-> <<>>, sni |-> <<>>, pbk |-> <<>>,
     sid |-> <<>>, fp |-> <<>>]

Schemes == {"vmess", "vless", "http"}

\* Lines 34-47: the fields of VMess.
NoVMess ==
    [Address |-> <<>>, Port |-> <<>>, ID |-> <<>>, AlterID |-> <<>>,
     Network |-> <<>>, Host |-> <<>>, Path |-> <<>>, TLS |-> <<>>,
     SNI |-> <<>>, ALPN |-> <<>>, Type |-> <<>>, Security |-> <<>>]

\* Lines 20-32: the fields of VLESS.
NoVLESS ==
    [Address |-> <<>>, Port |-> 0, ID |-> <<>>, Flow |-> <<>>,
     Network |-> <<>>, Security |-> <<>>, Host |-> <<>>, Path |-> <<>>,
     SNI |-> <<>>, ALPN |-> <<>>, Service |-> <<>>]

NoProvider == [set |-> FALSE, err |-> "", name |-> "", vm |-> NoVMess]

NoOutbound ==
    [set |-> FALSE, err |-> "", port |-> 0, alterId |-> 0, stream |-> <<>>]

\* url.Values.Get: the value of the key, empty when the key is absent.
Get(q, key) == IF key \in DOMAIN q THEN q[key] ELSE <<>>

\* The string of a JSON value in a payload, empty when the key is absent.
Str(p, key) == IF key \in DOMAIN p THEN p[key].s ELSE <<>>

\* Lines 36, 38, 115: encoding/json stores a JSON string in a field of type
\* string, leaves the field alone when the key is absent, and reports a
\* JSON number as an UnmarshalTypeError.
FieldOK(v) == v.kind # "number"

\* Line 115: json.Unmarshal(decoded, &vm).
Unmarshal(p) ==
    [ok |-> \A k \in DOMAIN p : FieldOK(p[k]),
     vm |-> [Address |-> Str(p, "add"), Port |-> Str(p, "port"),
             ID |-> Str(p, "id"), AlterID |-> Str(p, "aid"),
             Network |-> Str(p, "net"), Host |-> Str(p, "host"),
             Path |-> Str(p, "path"), TLS |-> Str(p, "tls"),
             SNI |-> Str(p, "sni"), ALPN |-> Str(p, "alpn"),
             Type |-> Str(p, "type"), Security |-> Str(p, "scy")]]

\* Lines 251-256.
valueOrDefault(v, d) == IF v = <<>> THEN d ELSE v

\* Lines 258-265.
RECURSIVE firstNonEmpty(_)
firstNonEmpty(vs) ==
    IF vs = <<>> THEN <<>>
    ELSE IF Head(vs) # <<>> THEN Head(vs)
    ELSE firstNonEmpty(Tail(vs))

\* strings.Split(v, ",").
RECURSIVE Split(_)
Split(v) ==
    LET i == IndexByte(v, 44)
    IN  IF i = 0 THEN <<v>>
        ELSE <<Take(v, i - 1)>> \o Split(Drop(v, i))

\* Lines 267-283: the parts between the commas, trimmed, the empty ones
\* left out; nil (the empty sequence) when none is left.
splitCSV(v) ==
    IF TrimSpace(v) = <<>> THEN <<>>
    ELSE LET parts == Split(v)
             trimmed == [i \in 1..Len(parts) |-> TrimSpace(parts[i])]
         IN  SelectSeq(trimmed, LAMBDA p : p # <<>>)

\* Lines 171-176 and 228-233: tlsSettings.
TlsSettings(v) ==
    [serverName |-> firstNonEmpty(<<v.SNI, v.Host, v.Address>>),
     alpn |-> splitCSV(v.ALPN)]

\* Lines 158-165 and 220-227: wsSettings.
WsSettings(v) ==
    [path |-> valueOrDefault(v.Path, S_slash), headers |-> [Host |-> v.Host]]

\* The entry key: value of a map when cond holds, no entry otherwise.
Entry(cond, key, value) == IF cond THEN key :> value ELSE <<>>

\* Lines 212-234: the streamSettings of VMess.Outbound.
VMessStream(v) ==
    LET security == IF ToLower(v.TLS) = S_tls THEN S_tls ELSE S_none
    IN  [network |-> valueOrDefault(v.Network, S_tcp), security |-> security]
        @@ Entry(v.Network = S_ws, "wsSettings", WsSettings(v))
        @@ Entry(security = S_tls, "tlsSettings", TlsSettings(v))

\* Lines 154-178: the streamSettings of VLESS.Outbound.
VLESSStream(v) ==
    [network |-> v.Network, security |-> v.Security]
    @@ Entry(v.Network = S_ws, "wsSettings", WsSettings(v))
    @@ Entry(v.Network = S_grpc, "grpcSettings", [serviceName |-> v.Service])
    @@ Entry(v.Security = S_tls, "tlsSettings", TlsSettings(v))

\* FromURI returns an error.
ProvFail(e) ==
    /\ prov' = [set |-> TRUE, err |-> e, name |-> "", vm |-> NoVMess]
    /\ vpc' = "done"

\* Lines 49-63: url.Parse and the switch on the scheme.
FromURI ==
    /\ vpc = "uri"
    /\ \/ ProvFail("invalid URI")
       \/ /\ scheme \notin {"vmess", "vless"}
          /\ ProvFail("unsupported scheme")
       \/ /\ scheme = "vmess"
          /\ vpc' = "decode"
          /\ UNCHANGED prov
       \/ /\ scheme = "vless"
          /\ vpc' = "vless"
          /\ UNCHANGED prov
    /\ UNCHANGED notProv
    /\ UNCHANGED <<scheme, b64ok, payload, user, hostport, query, vm, vl, outb>>

\* Lines 65-100: parseVLESS.
ParseVLESS ==
    /\ vpc = "vless"
    /\ LET hp == SplitHostPort(hostport)
       IN  IF user.nil
           THEN ProvFail("vless URI missing user id") /\ UNCHANGED vl
           ELSE IF user.name = <<>>
           THEN ProvFail("vless URI has empty user id") /\ UNCHANGED vl
           ELSE IF ~hp.ok
           THEN ProvFail("vless host/port parse failed") /\ UNCHANGED vl
           ELSE IF ~Atoi(hp.port).ok
           THEN ProvFail("invalid vless port") /\ UNCHANGED vl
           ELSE /\ vl' = [Address |-> hp.host,
                          Port |-> Atoi(hp.port).val,
                          ID |-> user.name,
                          Flow |-> Get(query, "flow"),
                          Network |-> valueOrDefault(Get(query, "type"), S_tcp),
                          Security |->
                              valueOrDefault(Get(query, "security"), S_none),
                          Host |-> Get(query, "host"),
                          Path |-> Get(query, "path"),
                          SNI |-> Get(query, "sni"),
                          ALPN |-> Get(query, "alpn"),
                          Service |-> Get(query, "serviceName")]
                /\ prov' = [set |-> TRUE, err |-> "", name |-> "vless",
                            vm |-> NoVMess]
                /\ vpc' = "vlessOutbound"
    /\ UNCHANGED notProv
    /\ UNCHANGED <<scheme, b64ok, payload, user, hostport, query, vm, outb>>

\* Lines 133-180: VLESS.Outbound.
VLESSOutbound ==
    /\ vpc = "vlessOutbound"
    /\ outb' = [set |-> TRUE, err |-> "", port |-> vl.Port, alterId |-> 0,
                stream |-> VLESSStream(vl)]
    /\ vpc' = "done"
    /\ UNCHANGED notProv
    /\ UNCHANGED <<scheme, b64ok, payload, user, hostport, query, vm, vl, prov>>

\* Lines 103-112: the prefix is cut, decodeBase64Any.
ParseVMessDecode ==
    /\ vpc = "decode"
    /\ IF b64ok THEN vpc' = "unmarshal" /\ UNCHANGED prov
       ELSE ProvFail("vmess base64 decode failed")
    /\ UNCHANGED notProv
    /\ UNCHANGED <<scheme, b64ok, payload, user, hostport, query, vm, vl, outb>>

\* Lines 114-117: json.Unmarshal.
ParseVMessUnmarshal ==
    /\ vpc = "unmarshal"
    /\ IF Unmarshal(payload).ok
       THEN /\ vm' = Unmarshal(payload).vm
            /\ vpc' = "check"
            /\ UNCHANGED prov
       ELSE /\ ProvFail("vmess JSON decode failed")
            /\ UNCHANGED vm
    /\ UNCHANGED notProv
    /\ UNCHANGED <<scheme, b64ok, payload, user, hostport, query, vl, outb>>

\* Lines 119-128: the required fields and the defaults.
ParseVMessCheck ==
    /\ vpc = "check"
    /\ IF vm.Address = <<>> \/ vm.Port = <<>> \/ vm.ID = <<>>
       THEN /\ ProvFail("vmess JSON missing add/port/id")
            /\ UNCHANGED vm
       ELSE /\ vm' = [vm EXCEPT !.Network = valueOrDefault(@, S_tcp),
                                 !.Security = valueOrDefault(@, S_auto)]
            /\ prov' = [set |-> TRUE, err |-> "", name |-> "vmess",
                        vm |-> vm']
            /\ vpc' = "outbound"
    /\ UNCHANGED notProv
    /\ UNCHANGED <<scheme, b64ok, payload, user, hostport, query, vl, outb>>

\* Lines 184-236: VMess.Outbound.
VMessOutbound ==
    /\ vpc = "outbound"
    /\ outb' =
          IF ~Atoi(vm.Port).ok
          THEN [set |-> TRUE, err |-> "invalid vmess port", port |-> 0,
                alterId |-> 0, stream |-> <<>>]
          ELSE [set |-> TRUE, err |-> "", port |-> Atoi(vm.Port).val,
                alterId |-> (IF vm.AlterID # <<>> /\ Atoi(vm.AlterID).ok
                             THEN Atoi(vm.AlterID).val ELSE 0),
                stream |-> VMessStream(vm)]
    /\ vpc' = "done"
    /\ UNCHANGED notProv
    /\ UNCHANGED <<scheme, b64ok, payload, user, hostport, query, vm, vl, prov>>

ProvInit ==
    /\ scheme \in Schemes
    /\ b64ok \in BOOLEAN
    /\ payload \in VMessPayloads
    /\ (scheme # "vmess" \/ ~b64ok) => payload = NoPayload
    /\ user \in Users
    /\ hostport \in HostPorts
    /\ query \in Queries
    /\ (scheme # "vless" =>
            user = NoUser /\ hostport = S_host /\ query = NoQuery)
    /\ vpc = "uri" /\ vm = NoVMess /\ vl = NoVLESS /\ prov = NoProvider
    /\ outb = NoOutbound

ProvNext ==
    \/ FromURI \/ ParseVLESS \/ VLESSOutbound \/ ParseVMessDecode
    \/ ParseVMessUnmarshal \/ ParseVMessCheck \/ VMessOutbound

\* FromURI has not been called.
ProvIdle ==
    /\ scheme = "" /\ b64ok = FALSE /\ payload = <<>> /\ user = NoUser
    /\ hostport = <<>> /\ query = <<>> /\ vpc = "idle"
    /\ vm = NoVMess /\ vl = NoVLESS /\ prov = NoProvider /\ outb = NoOutbound

(***************************************************************************)
(* httpClientThroughSocks: the redirect policy (part_000 lines 599-622)    *)
(***************************************************************************)

\* The redirects the servers answer at most.
MaxChain == 7

\* Line 613: the requests after which no redirect is followed.
RedirectLimit == 5

\* Line 613 with len(via) > 5.
CheckRedirectAbove(via, urlOK) ==
    IF via > RedirectLimit THEN "too many redirects"
    ELSE IF ~urlOK THEN "parse" ELSE ""

\* Lines 612-620: CheckRedirect; via holds the requests made so far, the
\* request of the redirect not among them.
CheckRedirect(via, urlOK) ==
    IF via >= RedirectLimit THEN "too many redirects"
    ELSE IF ~urlOK THEN "parse" ELSE ""

\* Lines 558 and 574: client.Do sends the next request of the chain: its
\* transport fails (the dial of lines 602-607, or the timeout of line 611),
\* or the server answers it with a redirect or with the final response.
RedirSend ==
    /\ dpc = "send"
    /\ dvia' = dvia + 1
    /\ IF dfail = dvia + 1
       THEN dres' = "transport" /\ dpc' = "done"
       ELSE IF dvia + 1 <= dchain
            THEN dpc' = "check" /\ UNCHANGED dres
            ELSE dres' = "response" /\ dpc' = "done"
    /\ UNCHANGED notRedir
    /\ UNCHANGED <<dchain, dfail, dbad>>

\* Lines 612-620: the client asks CheckRedirect before it follows the
\* redirect; an error ends client.Do with that error.
RedirCheck ==
    /\ dpc = "check"
    /\ LET e == CheckRedirect(dvia, dbad # dvia)
       IN  IF e = ""
           THEN dpc' = "send" /\ UNCHANGED dres
           ELSE dres' = e /\ dpc' = "done"
    /\ UNCHANGED notRedir
    /\ UNCHANGED <<dchain, dfail, dbad, dvia>>

RedirInit ==
    /\ dchain \in 0..MaxChain
    /\ dfail \in {0, 1, 3, 6}
    /\ dbad \in {0, 2, 5}
    /\ dvia = 0 /\ dpc = "send" /\ dres = "none"

RedirNext == RedirSend \/ RedirCheck

\* client.Do has not been called.
RedirIdle ==
    /\ dchain = 0 /\ dfail = 0 /\ dbad = 0 /\ dvia = 0 /\ dpc = "idle"
    /\ dres = "none"

(***************************************************************************)
(* streamLog (part_000 lines 379-412)                                      *)
(***************************************************************************)

\* The lines the core appends at most.
MaxLines == 3

\* The times the file is cut to nothing at most.
MaxTruncs == 1

\* The core appends one complete line to the access log in one write.
TailAppend ==
    /\ tpc # "idle" /\ Len(tall) < MaxLines
    /\ tfile' = Append(tfile, Len(tall) + 1)
    /\ tall' = Append(tall, Len(tall) + 1)
    /\ UNCHANGED notTail
    /\ UNCHANGED <<ttruncs, tstop, tpc, toffset, tsize, tprinted>>

\* The file is cut to nothing.
TailTruncate ==
    /\ tpc # "idle" /\ ttruncs < MaxTruncs /\ tfile # <<>>
    /\ tfile' = <<>>
    /\ ttruncs' = ttruncs + 1
    /\ UNCHANGED notTail
    /\ UNCHANGED <<tall, tstop, tpc, toffset, tsize, tprinted>>

\* Line 373: runProxy closes stopLog.
TailStop ==
    /\ tpc # "idle" /\ ~tstop
    /\ tstop' = TRUE
    /\ UNCHANGED notTail
    /\ UNCHANGED <<tfile, tall, ttruncs, tpc, toffset, tsize, tprinted>>

\* Lines 382-386: the select: stop is closed and streamLog returns, or
\* the 500ms have passed.
TailSelect ==
    /\ tpc = "select"
    /\ \/ tstop /\ tpc' = "exit"
       \/ tpc' = "open"
    /\ UNCHANGED notTail
    /\ UNCHANGED <<tfile, tall, ttruncs, tstop, toffset, tsize, tprinted>>

\* Lines 388-403: os.Open and f.Stat, either may fail; the offset goes
\* back to 0 when the file is shorter than it; nothing is read when the
\* size is the offset.
TailStat ==
    /\ tpc = "open"
    /\ \/ /\ tpc' = "select"
          /\ UNCHANGED <<toffset, tsize>>
       \/ /\ tsize' = Len(tfile)
          /\ toffset' = (IF Len(tfile) < toffset THEN 0 ELSE toffset)
          /\ tpc' = (IF Len(tfile) = toffset' THEN "select" ELSE "scan")
    /\ UNCHANGED notTail
    /\ UNCHANGED <<tfile, tall, ttruncs, tstop, tprinted>>

\* Lines 404-410: f.Seek(offset), the scanner reads to the end the file
\* has by then and every line it finds is printed; offset = info.Size().
TailScan ==
    /\ tpc = "scan"
    /\ tprinted' = tprinted \o SubSeq(tfile, toffset + 1, Len(tfile))
    /\ toffset' = tsize
    /\ tpc' = "select"
    /\ UNCHANGED notTail
    /\ UNCHANGED <<tfile, tall, ttruncs, tstop, tsize>>

\* Lines 379-381: streamLog has started, the access log is empty or holds
\* the first line of the core.
TailInit ==
    /\ tall \in {<<>>, <<1>>} /\ tfile = tall
    /\ ttruncs = 0 /\ tstop = FALSE /\ tpc = "select"
    /\ toffset = 0 /\ tsize = 0 /\ tprinted = <<>>

TailNext ==
    \/ TailAppend \/ TailTruncate \/ TailStop \/ TailSelect \/ TailStat
    \/ TailScan

\* streamLog has not been started.
TailIdle ==
    /\ tfile = <<>> /\ tall = <<>> /\ ttruncs = 0 /\ tstop = FALSE
    /\ tpc = "idle" /\ toffset = 0 /\ tsize = 0 /\ tprinted = <<>>

\* The components added last are idle.
LastIdle == RedirIdle /\ TailIdle

\* The components of the first sections are idle.
FirstIdle ==
    SocksIdle /\ WaitIdle /\ StartIdle /\ RelayIdle /\ RunIdle /\ MeterIdle

vars == <<socksVars, waitVars, startVars, relayVars, runVars, meterVars, moreVars>>

\* The components of the later sections are idle.
MoreIdle == LogIdle /\ HttpIdle /\ CoreIdle /\ ProvIdle /\ LastIdle

\* One call of DialSocks5 against a SOCKS5 server.
InitSocks == SocksInit /\ WaitIdle /\ StartIdle /\ RelayIdle /\ RunIdle
    /\ MeterIdle /\ MoreIdle

SpecSocks ==
    /\ InitSocks
    /\ [][SocksNext]_vars

\* One call of waitSocks while the core starts and the context runs.
InitWait == WaitInit /\ SocksIdle /\ StartIdle /\ RelayIdle /\ RunIdle
    /\ MeterIdle /\ MoreIdle

SpecWait ==
    /\ InitWait
    /\ [][WaitNext]_vars

\* One call of Runner.Start, then calls of Stop on what it returned.
InitStart == StartInit /\ SocksIdle /\ WaitIdle /\ RelayIdle /\ RunIdle
    /\ MeterIdle /\ MoreIdle

SpecStart ==
    /\ InitStart
    /\ [][StartNext]_vars

\* One command of the program, from its arguments to its return.
InitRun == RunInit /\ SocksIdle /\ WaitIdle /\ StartIdle /\ RelayIdle
    /\ MeterIdle /\ MoreIdle

SpecRun ==
    /\ InitRun
    /\ [][RunNext]_vars

\* The reporter and a relay whose counters it reads.
InitMeter ==
    RelayInit /\ MeterInit /\ SocksIdle /\ WaitIdle /\ StartIdle /\ RunIdle
    /\ MoreIdle

SpecMeter ==
    /\ InitMeter
    /\ [][MeterNext]_vars

\* The error log of a core and the calls of ReadLogTail on it.
InitLog == LogInit /\ FirstIdle /\ HttpIdle /\ CoreIdle /\ ProvIdle
    /\ LastIdle

SpecLog ==
    /\ InitLog
    /\ [][LogNext]_vars

\* One URI given to FromURI, and Outbound on the provider it returns.
InitProv == ProvInit /\ FirstIdle /\ LogIdle /\ HttpIdle /\ CoreIdle
    /\ LastIdle

SpecProv ==
    /\ InitProv
    /\ [][ProvNext]_vars

\* One call of probeHTTP or speedHTTP against a server.
InitHttp == HttpInit /\ FirstIdle /\ LogIdle /\ CoreIdle /\ ProvIdle
    /\ LastIdle

\* One call of resolveCorePath in one file system.
InitCore == CoreInit /\ FirstIdle /\ LogIdle /\ HttpIdle /\ ProvIdle
    /\ LastIdle

\* One call of client.Do against servers that redirect.
InitRedir ==
    RedirInit /\ FirstIdle /\ LogIdle /\ HttpIdle /\ CoreIdle /\ ProvIdle
    /\ TailIdle

SpecRedir ==
    /\ InitRedir
    /\ [][RedirNext]_vars

\* streamLog next to the core that appends to the access log.
InitTail ==
    TailInit /\ FirstIdle /\ LogIdle /\ HttpIdle /\ CoreIdle /\ ProvIdle
    /\ RedirIdle

SpecTail ==
    /\ InitTail
    /\ [][TailNext]_vars

SpecCore ==
    /\ InitCore
    /\ [][CoreNext]_vars

SpecHttp ==
    /\ InitHttp
    /\ [][HttpNext]_vars

\* One relay: connections arrive, are relayed, and stop is called.
InitRelay == RelayInit /\ SocksIdle /\ WaitIdle /\ StartIdle /\ RunIdle
    /\ MeterIdle /\ MoreIdle

SpecRelay ==
    /\ InitRelay
    /\ [][RelayNext]_vars

\* The relay's goroutines keep being scheduled; the clients and the target
\* do as they please.
SpecRelayFair ==
    /\ SpecRelay
    /\ WF_vars(RelayStep)

\* The goroutine running waitSocks keeps being scheduled, and time passes.
SpecWaitFair ==
    /\ SpecWait
    /\ WF_vars(WaitStep)
    /\ WF_vars(Tick)


(***************************************************************************)
(* Properties of DialSocks5                                                *)
(***************************************************************************)

Greeting == <<5, 1, 0>>

\* The request has been built: the greeting was accepted and lines 41-72
\* have run.
Parsed ==
    /\ Len(resp) = 2 /\ resp = <<5, 0>>
    /\ pc \notin {"greetRead", "greetCheck", "parse"}

AddrErrors == {"target addr parse", "target port is invalid", "target host is invalid"}

\* The call ended at lines 41-69: an address error, the connection closed,
\* nothing but the greeting written.
Rejected ==
    /\ pc = "done" /\ ret.err \in AddrErrors /\ ~ret.conn
    /\ conn = "closed" /\ sent = Greeting

\* C1: the CONNECT request is written only after a greeting reply equal to
\* [0x05, 0x00] has been read; after any other 2-byte reply nothing but the
\* greeting is ever written and the call fails with the negotiation error.
C1_ConnectOnlyAfterGreeting ==
    /\ Len(sent) > 3 => resp = <<5, 0>>
    /\ (Len(resp) = 2 /\ resp # <<5, 0>>) =>
          /\ sent = Greeting
          /\ pc \in {"greetCheck", "done"}
          /\ pc = "done" => (ret.err = "socks auth negotiation failed" /\ ~ret.conn)

C1_Witness ==
    pc = "done" /\ resp = <<5, 1>> /\ ret.err = "socks auth negotiation failed"

AfterDialErrors ==
    {"socks greeting write", "socks greeting read", "socks auth negotiation failed",
     "target addr parse", "target port is invalid", "target host is invalid",
     "socks connect write", "socks connect read", "invalid socks version in reply",
     "socks connect failed", "socks reply domain len read",
     "socks reply had unknown address type", "socks reply tail read"}

\* C2: a return gives a connection or an error, never both and never
\* neither; a failure after the dial succeeded leaves the connection closed;
\* nothing is returned before the call ends.
C2_OneResultAndClosed ==
    /\ pc # "done" => ret = NoReturn
    /\ pc = "done" =>
          /\ ret.conn # (ret.err # "")
          /\ ret.conn => conn = "open"
          /\ ret.err = "dial socks server" => conn = "nil"
          /\ (~ret.conn /\ ret.err # "dial socks server") =>
                (ret.err \in AfterDialErrors /\ conn = "closed")

C2_Witness ==
    /\ pc = "done" /\ conn = "closed"
    /\ ret.err = "socks reply had unknown address type"

\* C3: a reply header with version 5 and a non-zero status makes the call
\* fail with that status as the error's code and no connection, whatever
\* the address type of the reply.
C3_StatusReported ==
    (pc = "done" /\ Len(head) = 4 /\ head[1] = 5 /\ head[2] # 0) =>
        ret = Fail("socks connect failed", head[2])

C3_Witness ==
    pc = "done" /\ head = <<5, 5, 0, 9>> /\ ret = Fail("socks connect failed", 5)

\* The requests the specification spells out, and others worked by hand.
ExpectedRequest(t) ==
    IF t = T_v4 THEN <<5, 1, 0, 1, 93, 184, 216, 34, 1, 187>>
    ELSE IF t = T_domain
    THEN <<5, 1, 0, 3, 11, 101, 120, 97, 109, 112, 108, 101, 46, 99, 111, 109, 0, 80>>
    ELSE IF t = T_portmax THEN <<5, 1, 0, 3, 1, 97, 255, 255>>
    ELSE IF t = T_portplus THEN <<5, 1, 0, 3, 1, 97, 0, 80>>
    ELSE IF t = T_threedots THEN <<5, 1, 0, 3, 5, 49, 46, 50, 46, 51, 0, 80>>
    ELSE IF t = LongTarget(MaxHostLen, 0)
    THEN <<5, 1, 0, 3, 255>> \o Rep(97, 255) \o <<0, 80>>
    ELSE <<>>

\* C4: the CONNECT request written is 05 01 00, the address type, the
\* address bytes and the port as 2 big-endian bytes: type 1 carries 4
\* bytes, type 4 carries 16, type 3 one length byte equal to the number of
\* name bytes that follow; it is written right after the greeting and
\* equals the expected bytes for the targets worked by hand.
C4_RequestBytes ==
    Len(sent) > 3 =>
        LET r == Drop(sent, 3)
        IN  /\ r = req
            /\ Take(r, 3) = <<5, 1, 0>>
            /\ r[4] \in {1, 3, 4}
            /\ r[4] = 1 => Len(r) = 4 + 4 + 2
            /\ r[4] = 4 => Len(r) = 4 + 16 + 2
            /\ r[4] = 3 => (r[5] >= 1 /\ Len(r) = 4 + 1 + r[5] + 2)
            /\ ExpectedRequest(targetAddr) # <<>> => r = ExpectedRequest(targetAddr)

C4_Witness ==
    sent = Greeting \o <<5, 1, 0, 1, 93, 184, 216, 34, 1, 187>>

V6Literals == {T_v6loop, T_v6mapped, T_v6maphex, T_v6doc}

V4Literals == {T_v4}

\* C5 as claimed: a target whose host is an IPv6 literal, IPv4-mapped
\* forms included, is encoded as type 4 with 16 bytes, and type 1 is used
\* only for an IPv4 literal.
C5_IPv6AlwaysType4 ==
    req # <<>> =>
        /\ targetAddr \in V6Literals => (req[4] = 4 /\ Len(req) = 4 + 16 + 2)
        /\ req[4] = 1 => targetAddr \in V4Literals

\* The length C6 measures a host by: as given, or with surrounding white
\* space trimmed.
NameLen(h, trimmed) == IF trimmed THEN Len(TrimSpace(h)) ELSE Len(h)

\* The three conditions under which C6 has a target refused.
BadTarget(t, trimmed) ==
    LET hp == SplitHostPort(t)
    IN  \/ ~hp.ok
        \/ ~PortValid(Atoi(hp.port))
        \/ /\ ParseIP(hp.host) = Nil
           /\ (NameLen(hp.host, trimmed) = 0 \/ NameLen(hp.host, trimmed) > 255)

\* A target with a valid port whose host is a name of 1..255 bytes.
GoodName(t, trimmed) ==
    LET hp == SplitHostPort(t)
    IN  /\ hp.ok
        /\ PortValid(Atoi(hp.port))
        /\ ParseIP(hp.host) = Nil
        /\ NameLen(hp.host, trimmed) >= 1 /\ NameLen(hp.host, trimmed) <= 255

\* What C6 says of a target once the request has been built.
AddressChecked(trimmed) ==
    Parsed =>
        /\ BadTarget(targetAddr, trimmed) => Rejected
        /\ GoodName(targetAddr, trimmed) =>
              /\ req # <<>> /\ ret.err \notin AddrErrors
              /\ req[4] = 3
              /\ req[5] = NameLen(SplitHostPort(targetAddr).host, trimmed)
              /\ Len(req) = 4 + 1 + req[5] + 2

\* C6 as claimed: the length of the host is the length of the host as
\* given in the target.
C6_RawLength == AddressChecked(FALSE)

\* C6 amended: the length of the host is its length after surrounding
\* white space is trimmed; a target that cannot be split, has a port
\* outside 1..65535, or has a non-IP host whose trimmed form is empty or
\* longer than 255 bytes is rejected with nothing written beyond the
\* greeting; a non-IP host whose trimmed form has 1..255 bytes is accepted
\* and the length byte is that length.
C6_TrimmedLength == AddressChecked(TRUE)

C6_Witness ==
    /\ Parsed /\ targetAddr = LongTarget(MaxHostLen, 1)
    /\ req[5] = 255 /\ Len(sent) = 3 + 4 + 1 + 255 + 2

\* C7 as claimed: on success DialSocks5 has taken from the connection the
\* 2 bytes of the greeting reply and the CONNECT reply (4 header bytes,
\* the bound address, 2 port bytes) and nothing more.
C7_NothingBeyondReply ==
    (pc = "done" /\ ret.conn) =>
        nread = 2 + 4 + (IF head[4] = 3 THEN 1 ELSE 0) + skip + 2


(***************************************************************************)
(* Properties of waitSocks                                                 *)
(***************************************************************************)

\* What C8 and its amendment share: success is returned exactly when a
\* connect attempt succeeded, at once, and with the probe connection closed.
SuccessIffConnected ==
    /\ wpc = "done" => (wret = "nil" <=> okAttempts > 0)
    /\ okAttempts > 0 => (wpc = "done" /\ wret = "nil")
    /\ wret = "nil" => probe = "closed"
    /\ probe # "open"

\* C8 as claimed: success exactly when an attempt succeeded, the probe
\* closed; and an endpoint that starts accepting before the deadline
\* passes, the context never being done, makes waitSocks return success.
C8_LateEndpointAlwaysDetected ==
    /\ SuccessIffConnected
    /\ (wpc = "done" /\ listenAt >= 0 /\ listenAt < wdeadline /\ ~ctxDone) =>
          wret = "nil"

\* C8 amended: success exactly when an attempt succeeded, the probe closed;
\* an endpoint that starts accepting after earlier attempts failed is
\* detected by the next attempt waitSocks begins, and then success is
\* returned; an attempt is begun only while the deadline has not passed, so
\* a failure is returned only if no attempt was begun after the endpoint
\* started accepting.
C8_DetectedByNextAttempt ==
    /\ SuccessIffConnected
    /\ attempts > 0 => dialStart <= wdeadline
    /\ lateDial => (wpc \in {"dialing", "done"} /\ (wpc = "dialing" => dialOK))
    /\ (wpc = "done" /\ wret # "nil") => ~lateDial

C8_Witness ==
    /\ wpc = "done" /\ wret = "nil" /\ probe = "closed"
    /\ attempts >= 2 /\ listenAt > 0

\* The safety part of C9.
C9_Safe ==
    /\ (wpc = "done" /\ okAttempts = 0) => wret \in {"timeout", "ctx"}
    /\ wret = "timeout" => now > wdeadline
    /\ wret = "ctx" => ctxDone
    /\ wpc # "done" => wret = "none"
    /\ (wpc = "dialing" /\ prevEnd >= 0) => dialStart >= prevEnd + RetryInterval

\* C9: waitSocks always returns; when no attempt succeeded it returns a
\* failure, the timeout only once the deadline has passed and the
\* context's error only once the context is done; two consecutive attempts
\* are one retry interval apart.
C9_FailsOnlyAfterDeadline == [](C9_Safe) /\ <>(wpc = "done")

C9_Witness ==
    wpc = "done" /\ wret = "timeout" /\ attempts >= 2 /\ okAttempts = 0

(***************************************************************************)
(* Properties of Runner.Start                                              *)
(***************************************************************************)

\* C10 as claimed: the configuration file Start writes has a log section
\* whose error and access entries are the core.log and access.log paths
\* of the temporary directory of that call, the paths the handle exposes.
C10_ConfigFileNamesLogPaths ==
    /\ Join(dir, "config.json") \in DOMAIN files =>
          LET f == files[Join(dir, "config.json")]
          IN  /\ {"error", "access"} \subseteq DOMAIN f.log
              /\ f.log.error = Join(dir, "core.log")
              /\ f.log.access = Join(dir, "access.log")
    /\ (rpc = "done" /\ ~started.nil) =>
          LET f == files[started.ConfigPath]
          IN  /\ {"error", "access"} \subseteq DOMAIN f.log
              /\ f.log.error = started.LogPath
              /\ f.log.access = started.AccessLogPath

\* Start has left its validation (it is in a later step or has returned).
Validated == rpc \notin {"idle", "validate"}

\* The Runner is one the validation must refuse.
BadRunner ==
    \/ runner.CorePath = <<>>
    \/ runner.Port = 0
    \/ TrimSpace(runner.InboundProtocol) \notin {<<>>, S_socks, S_http}

\* C11: Start with an empty core path, a zero port, or an inbound protocol
\* other than socks/http (after trimming; empty means socks) returns an
\* error before it creates any temporary directory, writes any file or
\* launches any process.
C11_InvalidRunnerFailsFast ==
    (Validated /\ BadRunner) =>
        /\ rpc = "done" /\ serr # "" /\ started.nil
        /\ serr \in {"core path is required", "local socks port is required",
                     "unsupported inbound protocol"}
        /\ dir = 0 /\ files = <<>> /\ logf = "nil"
        /\ child = "none" /\ args = <<>> /\ body = <<>>

C11_Witness ==
    /\ rpc = "done" /\ serr = "unsupported inbound protocol"
    /\ runner.CorePath # <<>> /\ runner.Port # 0

\* The shape C12 gives a generated configuration c.
WellFormedConfig(c) ==
    /\ Len(c.inbounds) = 1
    /\ c.inbounds[1].listen = "127.0.0.1"
    /\ c.inbounds[1].port = runner.Port
    /\ c.inbounds[1].protocol \in {S_socks, S_http}
    /\ c.inbounds[1].protocol = S_http <=> TrimSpace(runner.InboundProtocol) = S_http
    /\ c.inbounds[1].protocol = S_socks =>
           /\ DOMAIN c.inbounds[1] = {"listen", "port", "protocol", "settings"}
           /\ c.inbounds[1].settings = [udp |-> FALSE]
    /\ c.inbounds[1].protocol = S_http =>
           DOMAIN c.inbounds[1] = {"listen", "port", "protocol"}
    /\ Len(c.outbounds) = 2
    /\ c.outbounds[1] = outbound
    /\ c.outbounds[2] = [tag |-> "direct", protocol |-> "freedom"]

\* C12: every configuration generated by Start (the cfg map, the marshalled
\* body and the file written) has exactly one inbound with listen
\* 127.0.0.1, the caller's port and the chosen protocol, with settings
\* udp=false exactly when the protocol is socks, and exactly two outbounds:
\* the caller's descriptor unchanged, then {tag: direct, protocol: freedom}.
C12_ConfigShape ==
    /\ cfg # <<>> => WellFormedConfig(cfg)
    /\ body # <<>> => WellFormedConfig(body)
    /\ \A f \in DOMAIN files : f[2] = "config.json" => WellFormedConfig(files[f])

C12_Witness ==
    /\ rpc = "done" /\ ~started.nil
    /\ started.ConfigPath \in DOMAIN files
    /\ files[started.ConfigPath].inbounds[1].protocol = S_socks
    /\ runner.InboundProtocol = S_socksSp
    /\ files[started.ConfigPath].outbounds[1].entries = 4

\* C13 as claimed: Start never launches the core with an empty (nil or
\* zero-entry) outbound descriptor; the descriptor embedded as outbounds[0]
\* of every generated configuration is non-empty.
C13_OutboundNeverEmpty ==
    /\ child # "none" => (~outbound.nil /\ outbound.entries > 0)
    /\ \A f \in DOMAIN files : f[2] = "config.json" =>
           (~files[f].outbounds[1].nil /\ files[f].outbounds[1].entries > 0)

\* The core paths whose base file name, lower-cased, contains "xray",
\* worked out by hand: /opt/xray and /opt/XRay-core, not /xray/v2ray.
XrayNamed == {P_xray, P_XRay}

\* C14: coreArgs selects the invocation style from the base file name of
\* the core path only: [run, -c, configPath] if the lower-cased base name
\* contains "xray", [-config, configPath] otherwise; directory components
\* never influence the choice.
C14_ArgsFromBaseName ==
    args # <<>> =>
        /\ runner.CorePath \in XrayNamed =>
               args = <<"run", "-c", <<dir, "config.json">> >>
        /\ runner.CorePath \notin XrayNamed =>
               args = <<"-config", <<dir, "config.json">> >>

C14_Witness ==
    /\ runner.CorePath = P_xrayDir
    /\ args = <<"-config", <<dir, "config.json">> >>
    /\ child = "running"

\* C15: Start returns either a handle whose child process has been started
\* or an error with no handle, never both and never neither; on a launch
\* failure no child process exists, and on both outcomes of the launch the
\* parent's handle to the error-log file has been closed before Start
\* returns.
C15_HandleXorError ==
    rpc = "done" =>
        /\ started.nil <=> serr # ""
        /\ ~started.nil => (started.Cmd = "process" /\ child # "none")
        /\ started.nil => child = "none"
        /\ (serr = "start core" \/ ~started.nil) => logf = "closed"
        /\ logf # "open"

C15_Witness ==
    rpc = "done" /\ serr = "start core" /\ logf = "closed" /\ child = "none"

\* C16: Stop kills the child and waits for its exit whatever the state of
\* the context, so the child is not running once Stop has returned on the
\* handle Start gave; Stop on a nil handle, on a handle without a started
\* process or on an already-stopped handle changes nothing, and a second
\* Stop leaves the state of the first.
C16_StopIdempotent ==
    [][Stop =>
          /\ UNCHANGED <<runner, outbound, cfg, body, dir, files, logf, args,
                         started, serr, sctxDone>>
          /\ lastStop' = "process" => child' = "exited"
          /\ lastStop' # "process" => child' = child
          /\ child # "running" => child' = child
          /\ (stops > 0 /\ lastStop = "process") => child' = child]_vars

C16_Witness ==
    /\ stops = 2 /\ lastStop = "process" /\ child = "exited" /\ sctxDone


(***************************************************************************)
(* Properties of Started.ReadLogTail                                       *)
(***************************************************************************)

\* C24: ReadLogTail never reports a failure: it returns the empty string
\* for a nil handle, an empty log path, or a missing or unreadable log
\* file; otherwise the whole error log when that has at most 4000 bytes
\* and exactly its last 4000 bytes when it is longer.
C24_LogTail ==
    lcall # <<>> =>
        /\ ltail \in Seq(Nat)
        /\ (lcall.h.nil \/ lcall.h.LogPath = <<>>
             \/ lcall.file \in {"missing", "unreadable"}) => ltail = <<>>
        /\ (~lcall.h.nil /\ lcall.h.LogPath # <<>> /\ lcall.file = "ok") =>
              /\ lcall.n <= 4000 => Len(ltail) = lcall.n
              /\ lcall.n > 4000 => Len(ltail) = 4000
              /\ \A i \in 1..Len(ltail) : ltail[i] = lcall.n - Len(ltail) + i

C24_Witness ==
    /\ lcall # <<>> /\ lcall.n = 4001
    /\ Len(ltail) = 4000 /\ ltail[1] = 2 /\ ltail[4000] = 4001

\* C28: in runProbe, runSpeed and runProxy a readiness failure and a
\* probe or speed request failure are returned as an error that wraps the
\* underlying cause and includes the core's log tail; the errors of
\* Runner.Start are returned without a log tail and without any readiness
\* polling done.
C28_ErrorsWrapped ==
    upc \in {"returning", "done"} =>
        /\ uret = "core did not become ready" =>
              uerr.cause \in WaitErrors /\ uerr.tail /\ upolled
        /\ uret = "request failed" =>
              uerr.cause \in RequestErrors /\ uerr.tail
        /\ uret \in StartErrors =>
              /\ uerr = [ctx |-> "", cause |-> uret, tail |-> FALSE]
              /\ ~upolled /\ ~coreUp

C28_Witness ==
    \/ /\ upc = "done" /\ ucmd = "probe" /\ uret = "request failed"
          /\ uerr.cause = "transport" /\ uerr.tail /\ stopCalls = 1
    \/ /\ upc = "done" /\ ucmd = "proxy" /\ uret = "launch" /\ ~upolled
    \/ /\ upc = "done" /\ ucmd = "speed"
          /\ uret = "core did not become ready" /\ uerr.cause = "not ready"

(***************************************************************************)
(* Properties of the handshake deadline                                    *)
(***************************************************************************)

\* A step changes the deadline only to set it with the connection just
\* dialled, to let it pass, or to clear it at the successful return; once
\* it has passed nothing more is written to or read from the connection.
DeadlineStep ==
    /\ (deadline' # deadline) =>
          (\/ /\ pc = "dial" /\ timeout > 0 /\ conn' = "open"
              /\ deadline = "none" /\ deadline' = "set"
           \/ deadline = "set" /\ deadline' = "expired"
           \/ pc = "finish" /\ pc' = "done" /\ deadline' = "none")
    /\ (deadline = "expired") => (sent' = sent /\ nread' = nread)

\* C33: with timeout > 0, DialSocks5 sets one deadline right after the dial
\* succeeds and never extends it during the handshake, so no read or write
\* of the handshake succeeds once it has passed; whenever DialSocks5
\* returns a connection, that connection has no deadline set.
C33_OneDeadline ==
    /\ []((timeout > 0 /\ conn = "open" /\ pc # "done") => deadline # "none")
    /\ []((pc = "done" /\ ret.conn) => (conn = "open" /\ deadline = "none"))
    /\ [][DeadlineStep]_vars

C33_Witness ==
    /\ pc = "done" /\ ret.conn /\ timeout > 0 /\ deadline = "none"
    /\ Len(sent) > 3 /\ nread >= 10

(***************************************************************************)
(* Properties of the provider                                              *)
(***************************************************************************)

\* The number a JSON value stands for, given as a number or as its
\* decimal text; -1 when it stands for none.
NumberOf(v) ==
    IF v.kind = "number" THEN v.n
    ELSE IF v.kind = "string" /\ v.s \in {S_443, S_0, S_1} THEN Atoi(v.s).val
    ELSE -1

\* C30: FromURI on a vmess:// URI accepts a JSON payload whose port and aid
\* are given either as JSON numbers or as JSON strings, and yields the same
\* numeric port and alter id in both cases.
C30_NumbersOrStrings ==
    (/\ vpc = "done" /\ scheme = "vmess" /\ b64ok
     /\ prov.err # "invalid URI"
     /\ payload.add # Absent /\ payload.id.s # <<>>
     /\ NumberOf(payload.port) > 0 /\ NumberOf(payload.aid) >= 0) =>
        /\ prov.err = ""
        /\ outb.err = ""
        /\ outb.port = NumberOf(payload.port)
        /\ outb.alterId = NumberOf(payload.aid)

\* C31: VMess.Outbound for network tcp with header type http produces
\* streamSettings.tcpSettings.header.request; that request has no headers
\* entry when Host is empty, and when Host is a comma-separated list it has
\* headers.Host equal to the list of the host names in their order.
C31_TcpHttpHeader ==
    (/\ vpc = "done" /\ scheme = "vmess" /\ outb.set /\ outb.err = ""
     /\ vm.Network = S_tcp /\ vm.Type = S_http) =>
        /\ "tcpSettings" \in DOMAIN outb.stream
        /\ "header" \in DOMAIN outb.stream.tcpSettings
        /\ "request" \in DOMAIN outb.stream.tcpSettings.header
        /\ LET request == outb.stream.tcpSettings.header.request
           IN  /\ vm.Host = <<>> => "headers" \notin DOMAIN request
               /\ vm.Host # <<>> =>
                     /\ "headers" \in DOMAIN request
                     /\ request.headers.Host = splitCSV(vm.Host)

\* C32: for a vless:// URI with security=reality, FromURI carries pbk, sid
\* and fp into the provider's PublicKey, ShortID and Fingerprint, and
\* VLESS.Outbound emits streamSettings.realitySettings with serverName =
\* SNI, password = PublicKey, shortId = ShortID, fingerprint = Fingerprint
\* and mldsa65Verify = PQV.
C32_RealityCarried ==
    (/\ vpc = "done" /\ scheme = "vless" /\ outb.set /\ outb.err = ""
     /\ query.security = S_reality) =>
        /\ {"PublicKey", "ShortID", "Fingerprint", "PQV"} \subseteq DOMAIN vl
        /\ vl.PublicKey = Get(query, "pbk")
        /\ vl.ShortID = Get(query, "sid")
        /\ vl.Fingerprint = Get(query, "fp")
        /\ "realitySettings" \in DOMAIN outb.stream
        /\ outb.stream.realitySettings =
              [serverName |-> vl.SNI, password |-> vl.PublicKey,
               shortId |-> vl.ShortID, fingerprint |-> vl.Fingerprint,
               mldsa65Verify |-> vl.PQV]

(***************************************************************************)
(* Properties of resolveCorePath                                           *)
(***************************************************************************)

\* The permissions 0o755 and 0o700 have an execute bit, 0o644 has none.
Executable(info) == info.perm \in {493, 448}

\* The candidates that count: executable regular files only, or every
\* executable entry that is no directory.
Counts(regularOnly, info) ==
    /\ Executable(info)
    /\ IF regularOnly THEN info.kind = "regular"
       ELSE info.kind \notin {"missing", "dir"}

\* The first candidate next to the executable that counts, 0 when there is
\* none or the executable's path is unknown.
FirstCandidate(regularOnly) ==
    IF exeOK /\ \E i \in DOMAIN stats : Counts(regularOnly, stats[i])
    THEN CHOOSE i \in DOMAIN stats :
            /\ Counts(regularOnly, stats[i])
            /\ \A j \in 1..(i - 1) : ~Counts(regularOnly, stats[j])
    ELSE 0

\* What the path resolution should give.
Resolved(regularOnly) ==
    IF TrimSpace(flagPath) # <<>>
    THEN cres = [set |-> TRUE, from |-> "flag", path |-> flagPath, i |-> 0,
                 err |-> FALSE]
    ELSE IF FirstCandidate(regularOnly) # 0
    THEN /\ ~cres.err /\ cres.from = "exeDir"
         /\ cres.i = FirstCandidate(regularOnly)
    ELSE IF inPath # {}
    THEN /\ ~cres.err /\ cres.from = "PATH"
         /\ cres.i \in inPath /\ \A j \in inPath : cres.i <= j
    ELSE cres.err

\* C29 as stated: resolveCorePath returns an explicitly given non-blank
\* path unchanged, without checking it; otherwise the first executable
\* regular file among the candidates next to the executable, in their
\* order; otherwise the first of xray, v2ray found in PATH; otherwise an
\* error.
C29_FirstRegular == cpc = "done" => Resolved(TRUE)

\* C29, amended: the candidate returned is the first that is an executable
\* entry other than a directory, regular file or not.
C29_FirstNonDirectory == cpc = "done" => Resolved(FALSE)

C29_Witness ==
    /\ cpc = "done" /\ flagPath = <<32, 9>> /\ exeOK
    /\ stats[1].kind = "dir" /\ stats[2].kind = "pipe"
    /\ stats[3] = [kind |-> "regular", perm |-> 493]
    /\ cres.from = "exeDir" /\ cres.i = 2

(***************************************************************************)
(* Properties of probeHTTP and speedHTTP                                   *)
(***************************************************************************)

\* The bytes of the body that arrive: all of it, or what precedes the
\* failure of the transfer.
Arriving == IF hfailAt >= 0 THEN hfailAt ELSE hbody

\* C25: speedHTTP reports bytesRead = min(maxBytes, body length) when
\* maxBytes > 0 and bytesRead = body length when maxBytes = 0; a body that
\* ends cleanly before the budget is reached is a success, not an error.
C25_SpeedBytes ==
    (hfn = "speed" /\ hpc = "done" /\ hfailAt = -1 /\ hres.err \notin
        {"new request", "transport", "unexpected HTTP status"}) =>
        /\ hres.err = ""
        /\ hmax > 0 => hres.bytes = (IF hmax < hbody THEN hmax ELSE hbody)
        /\ hmax = 0 => hres.bytes = hbody

C25_Witness ==
    \/ /\ hfn = "speed" /\ hpc = "done" /\ hmax = 100 /\ hbody = 150
          /\ hres.err = "" /\ hres.bytes = 100 /\ hres.elapsed > 0
    \/ /\ hfn = "speed" /\ hpc = "done" /\ hmax = 0 /\ hbody = 50
          /\ hres.err = "" /\ hres.bytes = 50 /\ hnow = 1

\* C26: speedHTTP fails for every response whose status is 400 or higher,
\* before reading any byte of the body and without reporting a byte count
\* or elapsed time; a response with a status below 400 is never rejected
\* because of its status.
C26_StatusRejected ==
    (hfn = "speed" /\ hpc \in {"read", "done"}
        /\ hres.err \notin {"new request", "transport"}) =>
        /\ hstatus >= 400 =>
              /\ hpc = "done" /\ hres.err = "unexpected HTTP status"
              /\ hread = 0 /\ hres.bytes = 0 /\ hres.elapsed = 0
        /\ hstatus < 400 => hres.err # "unexpected HTTP status"

C26_Witness ==
    /\ hfn = "speed" /\ hpc = "done" /\ hstatus = 400 /\ hbody = 150
    /\ hres.err = "unexpected HTTP status" /\ hnow > 0

C17_StoppedOnEveryReturn ==
    /\ (upc = "done" /\ coreUp) => stopCalls = 1
    /\ (upc = "done" /\ relayUp) => relayStops = 1
    /\ ~coreUp => stopCalls = 0
    /\ ~relayUp => relayStops = 0
    /\ relayStops <= 1

C17_Witness ==
    /\ upc = "done" /\ ucmd = "proxy" /\ uret = "nil"
    /\ coreUp /\ stopCalls = 1 /\ relayUp /\ relayStops = 1

\* The place of the first e in events, 0 when there is none.
Pos(e) ==
    IF \E i \in 1..Len(events) : events[i] = e
    THEN CHOOSE i \in 1..Len(events) :
            events[i] = e /\ \A j \in 1..(i - 1) : events[j] # e
    ELSE 0

\* Every e comes after the first a.
After(a, e) ==
    \A i \in 1..Len(events) : events[i] = e => (Pos(a) # 0 /\ Pos(a) < i)

\* No b comes after the first a.
Last(a, b) ==
    Pos(a) # 0 => \A i \in 1..Len(events) : events[i] = b => i < Pos(a)

\* C34: in runProbe, runSpeed and runProxy the order of events is always:
\* core started, readiness poll succeeded, harness request issued or relay
\* listener opened, core stopped; if the readiness poll fails, no HTTP
\* request is issued and no relay listener is opened, and the core is still
\* stopped.
C34_StartReadyWorkStop ==
    /\ After("core started", "ready") /\ After("core started", "not ready")
    /\ After("ready", "request") /\ After("ready", "relay opened")
    /\ After("core started", "core stopped")
    /\ Last("core stopped", "core started") /\ Last("core stopped", "ready")
    /\ Last("core stopped", "request") /\ Last("core stopped", "relay opened")
    /\ Pos("not ready") # 0 =>
          /\ Pos("request") = 0 /\ Pos("relay opened") = 0 /\ Pos("ready") = 0
          /\ upc \in {"returning", "done"}
    /\ (upc = "done" /\ Pos("core started") # 0) => Pos("core stopped") # 0

C34_Witness ==
    \/ /\ upc = "done" /\ ucmd = "speed"
          /\ events = <<"core started", "ready", "request", "core stopped",
                        "returned">>
    \/ /\ upc = "done" /\ ucmd = "proxy"
          /\ events = <<"core started", "not ready", "core stopped",
                        "returned">>

\* What C38 says of the ports but for the case of the meter enabled: with
\* the meter disabled the core listens on the local port itself and no
\* relay is started, and a relay never listens on the port of the core.
PortsOtherwise ==
    /\ ~showTraffic =>
          /\ corePort = localPort /\ draws = <<>>
          /\ ~relayUp /\ Pos("relay opened") = 0
    /\ relayUp => corePort # localPort

\* C38 as stated: in runProxy with the traffic meter enabled, the port given
\* to the core is different from the local listen port for every outcome of
\* randomPort; with the meter disabled the core listens on the local port
\* itself and no relay is started.
C38_PortsAlwaysDiffer ==
    (ucmd = "proxy" /\ coreUp) =>
        /\ showTraffic => corePort # localPort
        /\ PortsOtherwise

\* C38, amended: with the meter enabled the port given to the core is the
\* local listen port only when two outcomes of randomPort in a row are
\* that port.
C38_PortsDifferButForTwoDraws ==
    (ucmd = "proxy" /\ coreUp) =>
        /\ showTraffic =>
              /\ draws # <<>> /\ corePort = draws[Len(draws)]
              /\ corePort = localPort <=> draws = <<localPort, localPort>>
        /\ PortsOtherwise

C38_Witness ==
    /\ ucmd = "proxy" /\ upc = "done" /\ showTraffic /\ coreUp
    /\ localPort = 20000 /\ draws = <<20000, 20000>> /\ corePort = 20000
    /\ uret = "start local relay" /\ stopCalls = 1

\* C39: after an interrupt signal in runProxy the reporter and the log
\* streamer are signalled and joined, then the relay's stop function runs
\* to completion, and only then is the core killed; the core is never
\* killed while the relay is still accepting connections, and runProxy
\* returns only after all three steps.
C39_ShutdownOrder ==
    /\ After("interrupt", "signalled") /\ After("signalled", "joined")
    /\ ucmd = "proxy" =>
          /\ After("joined", "relay stopped")
          /\ Last("core stopped", "relay stopped")
          /\ Last("core stopped", "joined")
          /\ relayUp /\ stopCalls > 0 => relayStops = 1
          /\ relayUp /\ Pos("core stopped") # 0 => Pos("relay stopped") # 0
    /\ Last("returned", "core stopped") /\ Last("returned", "relay stopped")
    /\ (upc = "done" /\ Pos("interrupt") # 0) =>
          /\ Pos("joined") # 0 /\ tasks = {} /\ chansClosed
          /\ relayUp => Pos("relay stopped") # 0
          /\ Pos("core stopped") # 0 /\ events[Len(events)] = "returned"

C39_Witness ==
    /\ upc = "done" /\ ucmd = "proxy" /\ showTraffic /\ printRequests
    /\ events = <<"core started", "ready", "relay opened", "interrupt",
                  "signalled", "joined", "relay stopped", "core stopped",
                  "returned">>

(***************************************************************************)
(* Properties of startRelay and relayConn                                  *)
(***************************************************************************)

\* C18: once the stop function has returned, the accept loop has exited,
\* no handler or copy task is still running and neither traffic counter is
\* modified again; a connection accepted concurrently with the stop call
\* is either never handled or fully handled before stop returns.
C18_QuiescentAfterStop ==
    spc = "returned" =>
        /\ apc = "exit" /\ held = 0 /\ rwg = 0
        /\ \A c \in ConnIds :
              /\ rc[c].st \in {"idle", "dropped", "closed"}
              /\ rc[c].st = "closed" =>
                    (rc[c].upDone = rc[c].downDone)
              /\ rc[c].late => rc[c].st = "closed"
        /\ snap = <<upTotal, downTotal, adds>>

C18_Witness ==
    /\ spc = "returned"
    /\ \E c \in ConnIds :
          rc[c].late /\ rc[c].st = "closed" /\ rc[c].upDone /\ rc[c].upN > 0
    /\ \E c \in ConnIds : rc[c].st = "dropped"

\* C19 as claimed: a call of the stop function returns after finitely many
\* steps in every state of the relay, also when a relayed connection is
\* open at the call and neither the client nor the target ever closes it.
C19_StopAlwaysReturns == (spc # "idle") ~> (spc = "returned")

RECURSIVE SumOver(_, _, _)
SumOver(S, f, done) ==
    IF S = {} THEN 0
    ELSE LET c == CHOOSE x \in S : TRUE
         IN  (IF rc[c][done] THEN rc[c][f] ELSE 0) + SumOver(S \ {c}, f, done)

\* The directions whose copy has ended after moving at least one byte.
MovedDirections ==
    Cardinality({c \in ConnIds : rc[c].upDone /\ rc[c].upN > 0})
    + Cardinality({c \in ConnIds : rc[c].downDone /\ rc[c].downN > 0})

\* C20: for every relayed connection that has finished, the uplink counter
\* has increased by exactly the bytes copied client-to-target on it and the
\* downlink counter by exactly the bytes copied target-to-client, also with
\* several connections relayed concurrently; a direction that moved 0
\* bytes performs no counter update.
C20_CountersExact ==
    /\ upTotal = SumOver(ConnIds, "upN", "upDone")
    /\ downTotal = SumOver(ConnIds, "downN", "downDone")
    /\ adds = MovedDirections
    /\ \A c \in ConnIds :
          rc[c].st = "closed" => (rc[c].upN <= upTotal /\ rc[c].downN <= downTotal)

C20_Witness ==
    /\ \E c \in ConnIds :
          /\ rc[c].st = "closed" /\ rc[c].upN = 1 /\ rc[c].downN = 2
          /\ \E d \in ConnIds \ {c} :
                /\ rc[d].st = "closed" /\ rc[d].upDone
                /\ rc[d].upN = 0 /\ rc[d].downN = 1
    /\ upTotal = 1 /\ downTotal = 3 /\ adds = 3


\* An accepted connection whose dial failed: relayConn returned without
\* having started a copy.
DialFailed(c) ==
    rc[c].st = "closed" /\ ~rc[c].upDone /\ ~rc[c].downDone

\* C21: if dialing the target fails for an accepted connection, that
\* connection is closed, no counter changes, no retry is made, and the
\* accept loop keeps accepting later connections; the accept loop exits
\* only after the stop function has been called, never because of a
\* per-connection failure or a failed accept.
C21_FailuresIsolated ==
    /\ [](\A c \in ConnIds :
            DialFailed(c) =>
                /\ rc[c].cs = "closed" /\ rc[c].ts = "none"
                /\ rc[c].upN = 0 /\ rc[c].downN = 0)
    /\ [](apc = "exit" => (stopCh /\ spc # "idle"))
    /\ [][\A c \in ConnIds :
            /\ (rc[c].st = "dial" /\ rc'[c].st = "closed") =>
                  /\ <<apc, held, ln, stopCh, upTotal, downTotal, adds>>'
                       = <<apc, held, ln, stopCh, upTotal, downTotal, adds>>
                  /\ \A d \in ConnIds \ {c} : rc'[d] = rc[d]
            /\ DialFailed(c) => rc'[c] = rc[c]
            /\ (apc = "check" /\ ~stopCh) => apc' \in {"check", "accept"}]_vars

C21_Witness ==
    /\ DialFailed(1)
    /\ rc[2].st = "relay" /\ rc[2].upN > 0
    /\ apc = "accept" /\ ln = "open" /\ ~stopCh
    /\ upTotal = 0 /\ downTotal = 0

\* C22 as claimed: a copy direction ends only when its own source has
\* closed or failed; ending it half-closes the write side of its
\* destination only, and the handler closes the two sockets only after
\* both copies have completed.
C22_EndsOnlyOnOwnSource ==
    \A c \in ConnIds :
        /\ rc[c].upDone => rc[c].cEOF
        /\ rc[c].downDone => rc[c].tEOF
        /\ rc[c].ts = "closed" => (rc[c].upDone /\ rc[c].downDone)

\* C22 amended: a copy direction ends only once its own source has closed
\* or failed or the peer it writes to has closed or failed; ending it
\* half-closes the write side of its destination and nothing else, the
\* opposite direction is left running, and the handler closes the two
\* sockets only after both copies have completed, in whichever order.
C22_HalfCloseThenJointClose ==
    /\ [](\A c \in ConnIds :
            /\ rc[c].upDone => (rc[c].cEOF \/ rc[c].tEOF)
            /\ rc[c].downDone => (rc[c].tEOF \/ rc[c].cEOF)
            /\ (rc[c].st = "relay" /\ rc[c].upDone) => rc[c].ts = "wclosed"
            /\ (rc[c].st = "relay" /\ ~rc[c].upDone) => rc[c].ts = "open"
            /\ (rc[c].st = "relay" /\ rc[c].downDone) => rc[c].cs = "wclosed"
            /\ (rc[c].st = "relay" /\ ~rc[c].downDone) => rc[c].cs = "open"
            /\ rc[c].ts = "closed" =>
                  (rc[c].upDone /\ rc[c].downDone /\ rc[c].cs = "closed"))
    /\ [][\A c \in ConnIds :
            /\ (~rc[c].upDone /\ rc'[c].upDone) =>
                  (rc'[c].downDone = rc[c].downDone /\ rc'[c].cs = rc[c].cs
                   /\ rc'[c].st = "relay")
            /\ (~rc[c].downDone /\ rc'[c].downDone) =>
                  (rc'[c].upDone = rc[c].upDone /\ rc'[c].ts = rc[c].ts
                   /\ rc'[c].st = "relay")]_vars

\* The up direction has ended and the down direction still copies.
C22_Witness ==
    \E c \in ConnIds :
        /\ rc[c].st = "relay" /\ rc[c].upDone /\ ~rc[c].downDone
        /\ rc[c].ts = "wclosed" /\ rc[c].cs = "open"
        /\ rc[c].upN = 0 /\ rc[c].downN = 2 /\ ~rc[c].tEOF

\* C23: both traffic counters never decrease over any sequence of relay
\* and reporter steps; they are changed only by the adds of the relay's
\* copy tasks, and no step of the reporter changes either counter.
C23_CountersMonotone ==
    [][/\ upTotal' >= upTotal /\ downTotal' >= downTotal
       /\ upTotal' # upTotal =>
             \E c \in ConnIds :
                /\ ~rc[c].upDone /\ rc'[c].upDone
                /\ upTotal' = upTotal + rc[c].upN
       /\ downTotal' # downTotal =>
             \E c \in ConnIds :
                /\ ~rc[c].downDone /\ rc'[c].downDone
                /\ downTotal' = downTotal + rc[c].downN
       /\ <<mpc, mstop, prevUp, prevDown, printed>>'
             # <<mpc, mstop, prevUp, prevDown, printed>> =>
             (upTotal' = upTotal /\ downTotal' = downTotal)]_vars

\* The reporter has printed totals that are not zero, and rates below them.
C23_Witness ==
    /\ printed # <<>>
    /\ printed[3] = 2 /\ printed[4] = 1 /\ printed[1] = 0 /\ printed[2] = 1
    /\ upTotal = 2 /\ downTotal = 1

\* The totals of the line printed last, 0 and 0 before the first line.
LastSample == IF printed = <<>> THEN <<0, 0>> ELSE <<printed[3], printed[4]>>

\* A tick: the rates printed are the counters at this sample less the
\* counters at the sample before it.
RateStep ==
    (mpc = "run" /\ printed' # printed) =>
        /\ printed'[3] = upTotal /\ printed'[4] = downTotal
        /\ printed'[1] = upTotal - LastSample[1]
        /\ printed'[2] = downTotal - LastSample[2]

\* C35: at every tick the reporter prints, for each direction, the counter
\* at this sample less the counter at its previous sample, 0 before the
\* first sample; the rate is never negative, and the rates printed so far
\* add up to the total of the latest line.
C35_RatesAreDifferences ==
    /\ [](/\ prevUp = LastSample[1] /\ prevDown = LastSample[2]
          /\ rateSums = LastSample
          /\ printed # <<>> => (printed[1] >= 0 /\ printed[2] >= 0))
    /\ [][RateStep]_vars

\* A later line follows the line that printed the uplink total as a rate:
\* its uplink rate is 0 and its downlink rate is what the downlink gained.
C35_Witness ==
    /\ mpc = "run" /\ printed = <<0, 1, 2, 1>>
    /\ prevUp = 2 /\ prevDown = 1 /\ rateSums = <<2, 1>>

\* A copy moves bytes: the counters and the printed line stay as they are.
MoveStep ==
    (\E c \in ConnIds : rc'[c].upN # rc[c].upN \/ rc'[c].downN # rc[c].downN)
        => (upTotal' = upTotal /\ downTotal' = downTotal
            /\ printed' = printed /\ rateSums' = rateSums)

\* The end of a copy: its whole total is added at once.
EndStep ==
    \A c \in ConnIds :
        /\ (~rc[c].upDone /\ rc'[c].upDone) =>
              (upTotal' = upTotal + rc[c].upN /\ rc'[c].upN = rc[c].upN)
        /\ (~rc[c].downDone /\ rc'[c].downDone) =>
              (downTotal' = downTotal + rc[c].downN
               /\ rc'[c].downN = rc[c].downN)

C36_FiveRequests ==
    /\ dvia <= RedirectLimit
    /\ dres = "too many redirects" =>
          (dvia = RedirectLimit /\ dchain >= RedirectLimit)
    /\ dres = "transport" => dfail = dvia
    /\ dres = "parse" => dbad = dvia
    /\ (dpc = "done" /\ dres \notin {"transport", "parse"}) =>
          IF dchain < RedirectLimit
          THEN dres = "response" /\ dvia = dchain + 1
          ELSE dres = "too many redirects"

\* The fifth request is answered with a redirect, which is rejected.
C36_Witness ==
    /\ dpc = "done" /\ dres = "too many redirects"
    /\ dchain = RedirectLimit /\ dvia = RedirectLimit

\* C40: streamLog prints every complete line appended to the access log
\* exactly once and in file order, for every interleaving of its polling
\* cycles with the appends of the core: no line is printed twice, split in
\* two or skipped; it restarts from the beginning of the file only when the
\* file has shrunk below the remembered offset.
C40_EachLineOnce ==
    /\ [](ttruncs = 0 =>
            /\ Len(tprinted) <= Len(tall)
            /\ tprinted = SubSeq(tall, 1, Len(tprinted)))
    /\ [][(tpc = "open" /\ toffset' < toffset) => Len(tfile) < toffset]_vars

=============================================================================
